---------------------------- MODULE Spec2Model ----------------------------
(***************************************************************************)
(* f4tapir: merging of timestamped interview transcripts (RTF subset).     *)
(*                                                                         *)
(* Text is modelled byte by byte: a text is a sequence of one-character    *)
(* strings.  A Timestamp is the record of the fields that the source packs *)
(* into one u32 (value and digit width of hours, minutes and seconds, and  *)
(* the subsecond digit); two records are equal exactly when the packed     *)
(* words are equal.  A failed assert! of the source (a panic) is the value *)
(* PANIC.                                                                  *)
(***************************************************************************)
EXTENDS Integers, Sequences, FiniteSets, TLC

VARIABLES
    \* ---- write_merged_transcript (src/src/transcript/merge.rs) ----
    input,            \* the argument `transcripts`: indexes into Files
    transcripts,      \* position of the peekable iterator (next item)
    to,               \* the sink: the writes made so far, in order
    last_transcript,  \* Option<Transcript>: 0 = None, else index into input
    shift,            \* the running shift
    pc,               \* position in write_merged_transcript
    \* ---- Timestamp arithmetic (src/src/timestamp.rs) ----
    ts_a, ts_b,       \* operands
    ts_op,            \* the operation applied last
    ts_r,             \* its result
    \* ---- Timestamp::write_with_adjusted_timestamps ----
    rw_text,          \* content_with_timestamps
    rw_by,            \* by
    rw_out,           \* what was written to the sink, or <<"PANIC">>
    rw_pc,            \* "call" before, "ret" after the call
    \* ---- Timestamp::parse ----
    ps_text,          \* the argument `timestamp`
    ps_r,             \* None (Err), Some(timestamp) or Some(PANIC)
    ps_pc,            \* "call" before, "ret" after parse, "len" after len
    ps_len,           \* the value of len() of the parsed timestamp
    \* ---- Rtf and Lines::parse_line (src/src/transcript) ----
    ln_line,          \* the line
    ln_tokens,        \* the tokens the iterator has yielded so far
    ln_class,         \* None, or Some(line) once the line is classified
    ln_by,            \* adjust_by of Line::write_adjusted
    ln_out,           \* None, or Some(what write_adjusted wrote)
    ln_pc,            \* "iter", "end" when next() gave None, then
                      \* "classified" and "written"
    \* ---- merge and Transcript::from_file (src/src/merge.rs) ----
    ld_paths,         \* the paths collect_transcripts found: indexes into
                      \* DiskFiles
    ld_next,          \* the next path the filter_map iterator will load
    ld_last,          \* None, or Some(result of the last from_file)
    ld_merged,        \* the paths whose transcripts the iterator yielded
    ld_file,          \* the output file: "absent" or "created"
    ld_pc             \* position in merge

vars == <<input, transcripts, to, last_transcript, shift, pc,
          ts_a, ts_b, ts_op, ts_r, rw_text, rw_by, rw_out, rw_pc,
          ps_text, ps_r, ps_pc, ps_len,
          ln_line, ln_tokens, ln_class, ln_by, ln_out, ln_pc,
          ld_paths, ld_next, ld_last, ld_merged, ld_file, ld_pc>>

----------------------------------------------------------------------------
(* Bytes *)

Digits == <<"0", "1", "2", "3", "4", "5", "6", "7", "8", "9">>

is_ascii_digit(ch) == ch \in {"0", "1", "2", "3", "4", "5", "6", "7", "8", "9"}

is_ascii_lowercase(ch) ==
    ch \in {"a", "b", "c", "d", "e", "f", "g", "h", "i", "j", "k", "l", "m",
            "n", "o", "p", "q", "r", "s", "t", "u", "v", "w", "x", "y", "z"}

\* byte - b'0'
DigitValue(ch) == CHOOSE d \in 0..9 : Digits[d + 1] = ch

\* &s[from..to] with 0-based, end-exclusive offsets
Slice(s, from, upto) == SubSeq(s, from + 1, upto)

\* s[at] with a 0-based offset
ByteAt(s, at) == s[at + 1]

\* the element of a set of one element; the({ e : v \in {x} }) is e with the
\* value of x for v: x is evaluated once, as a let binding of the source is
the(S) == CHOOSE r \in S : TRUE

----------------------------------------------------------------------------
(* Timestamp: src/src/timestamp.rs *)

HOURS_LEN_MIN == 1
HOURS_LEN_MAX == 4
HOURS_VAL_MIN == 0
HOURS_VAL_MAX == 4095
MINUTES_LEN_MIN == 1
MINUTES_LEN_MAX == 2
MINUTES_VAL_MIN == 0
MINUTES_VAL_MAX == 59
SECONDS_LEN_MIN == 1
SECONDS_LEN_MAX == 2
SECONDS_VAL_MIN == 0
SECONDS_VAL_MAX == 59
SUBSECS_VAL_MAX == 9
U32_MAX_DIV_10 == 429496729

\* "#00:00:00-0#".len()
F4_MAX_TIMESTAMP_LEN == 12

MkTs(h, hl, m, ml, s, sl, ss) ==
    [hours |-> h, hours_len |-> hl, minutes |-> m, minutes_len |-> ml,
     seconds |-> s, seconds_len |-> sl, subsecs |-> ss]

\* the outcome of a computation that hit a failed assert!
PANIC == MkTs(0, 0, 0, 0, 0, 0, 0)

\* pack with the assert! on the length only: any time is packed
pack_len_only(time, time_min, time_max, len, len_min, len_max) ==
    /\ len >= len_min /\ len <= len_max

\* the two assert! of pack; the packed bits are the fields of the record
pack(time, time_min, time_max, len, len_min, len_max) ==
    /\ time >= time_min /\ time <= time_max
    /\ len >= len_min /\ len <= len_max

\* new_with_input_len without any assert!: every value is packed
new_with_input_len_unchecked(hours, hours_len, minutes, minutes_len, seconds, seconds_len, subsecs, subsecs_len) ==
    MkTs(hours, hours_len, minutes, minutes_len, seconds, seconds_len, subsecs)

new_with_input_len(hours, hours_len, minutes, minutes_len, seconds, seconds_len, subsecs, subsecs_len) ==
    IF /\ subsecs_len = 1 /\ subsecs <= SUBSECS_VAL_MAX
       /\ pack(hours, HOURS_VAL_MIN, HOURS_VAL_MAX,
               hours_len, HOURS_LEN_MIN, HOURS_LEN_MAX)
       /\ pack(minutes, MINUTES_VAL_MIN, MINUTES_VAL_MAX,
               minutes_len, MINUTES_LEN_MIN, MINUTES_LEN_MAX)
       /\ pack(seconds, SECONDS_VAL_MIN, SECONDS_VAL_MAX,
               seconds_len, SECONDS_LEN_MIN, SECONDS_LEN_MAX)
    THEN MkTs(hours, hours_len, minutes, minutes_len,
              seconds, seconds_len, subsecs)
    ELSE PANIC

\* let hours_len = if hours < 100 { 2 } else { 3 };
new_hours_len(hours) == IF hours < 100 THEN 2 ELSE 3

new(hours, minutes, seconds, subsecs) ==
    new_with_input_len(hours, new_hours_len(hours), minutes, 2, seconds, 2,
                       subsecs, 1)

zero == new(0, 0, 0, 0)

\* the u32 inside Timestamp(u32): pack shifts (len - len_min) and
\* (time - time_min) to the places of the masks, subsecs take the low bits.
\* The word is held as <<bits 31..30, bits 29..0>>, each part below 2^30.
packed(t) ==
    << t.hours_len - HOURS_LEN_MIN,
       (t.hours - HOURS_VAL_MIN) * 2^18
        + (t.minutes_len - MINUTES_LEN_MIN) * 2^17
        + (t.minutes - MINUTES_VAL_MIN) * 2^11
        + (t.seconds_len - SECONDS_LEN_MIN) * 2^10
        + (t.seconds - SECONDS_VAL_MIN) * 2^4 + t.subsecs >>

\* #[derive(PartialEq, Eq, PartialOrd, Ord)] on the one-field tuple struct:
\* the comparison of the two u32
lt(a, b) ==
    \/ packed(a)[1] < packed(b)[1]
    \/ packed(a)[1] = packed(b)[1] /\ packed(a)[2] < packed(b)[2]
eq(a, b) == packed(a) = packed(b)

\* the length of the canonical text #HH:MM:SS-D#, whatever was parsed
len_canonical(t) == 1 + new_hours_len(t.hours) + 1 + 2 + 1 + 2 + 1 + 1 + 1

\* Timestamp::len
len(t) == 1 + t.hours_len + 1 + t.minutes_len + 1 + t.seconds_len + 1 + 1 + 1

carrying_add_no_carry(lhs, rhs, wrap_at) ==
    <<(lhs + rhs) % wrap_at, 0>>

\* (sum, carry)
carrying_add(lhs, rhs, wrap_at) ==
    LET unwrapped_sum == lhs + rhs
        carry == unwrapped_sum \div wrap_at
    IN  <<unwrapped_sum - carry * wrap_at, carry>>

\* impl Add for Timestamp
add(self, rhs) ==
    LET ss == carrying_add(self.subsecs, rhs.subsecs, 10)
        s  == carrying_add(ss[2] + self.seconds, rhs.seconds, 60)
        m  == carrying_add(s[2] + self.minutes, rhs.minutes, 60)
        hours == m[2] + self.hours + rhs.hours
    IN  new(hours, m[1], s[1], ss[1])

round_up(self) ==
    IF self.hours > 0
    THEN IF self.minutes = 0 /\ self.seconds = 0 /\ self.subsecs = 0
         THEN self
         ELSE new(self.hours + 1, 0, 0, 0)
    ELSE IF self.minutes > 0
    THEN IF self.seconds = 0 /\ self.subsecs = 0
         THEN self
         ELSE new(0, self.minutes + 1, 0, 0)
    ELSE IF self.seconds > 0
    THEN new(0, 1, 0, 0)
    ELSE new(0, 0, 0, 0)

RECURSIVE DecDigits(_)
\* the decimal digits of n, most significant first
DecDigits(n) ==
    IF n < 10 THEN <<Digits[n + 1]>>
    ELSE DecDigits(n \div 10) \o <<Digits[(n % 10) + 1]>>

\* {:02}: at least two digits, zero-padded
Pad2(n) == IF n < 10 THEN <<"0">> \o DecDigits(n) ELSE DecDigits(n)

\* impl Display for Timestamp: "#{hours:02}:{minutes:02}:{seconds:02}-{subsecs}#"
Display(t) ==
    <<"#">> \o Pad2(t.hours) \o <<":">> \o Pad2(t.minutes) \o <<":">>
        \o Pad2(t.seconds) \o <<"-">> \o DecDigits(t.subsecs) \o <<"#">>

\* Option: None
None == <<>>
Some(x) == <<x>>

\* expect_byte at 0-based position pos: the position after it, or None
expect_byte(bytes, pos, expect) ==
    IF pos < Len(bytes) /\ ByteAt(bytes, pos) = expect
    THEN Some(pos + 1) ELSE None

RECURSIVE parse_number_loop(_, _, _, _)
\* the loop of parse_number: Some(<<number, digits, pos>>) or None when
\* checked_mul / checked_add overflows
parse_number_loop(bytes, pos, number, digits) ==
    IF pos < Len(bytes) /\ is_ascii_digit(ByteAt(bytes, pos))
    THEN IF number > U32_MAX_DIV_10
         THEN None
         ELSE parse_number_loop(bytes, pos + 1,
                  number * 10 + DigitValue(ByteAt(bytes, pos)), digits + 1)
    ELSE Some(<<number, digits, pos>>)

\* parse_number at position pos: Some(<<number, digits, next pos>>) or None
parse_number(bytes, pos, max) ==
    IF ~(pos < Len(bytes) /\ is_ascii_digit(ByteAt(bytes, pos)))
    THEN None
    ELSE the({ IF r = None THEN None
               ELSE IF r[1][1] <= max THEN r ELSE None
             : r \in {parse_number_loop(bytes, pos + 1,
                          DigitValue(ByteAt(bytes, pos)), 1)} })

\* Timestamp::try_parse_timestamp: Some(t), None, or Some(PANIC) when the
\* final new_with_input_len panics; each ? returns None at once
try_parse_timestamp(timestamp) ==
    the({ IF p1 = None THEN None ELSE
    the({ IF h = None THEN None ELSE
    the({ IF p2 = None THEN None ELSE
    the({ IF m = None THEN None ELSE
    the({ IF p3 = None THEN None ELSE
    the({ IF s = None THEN None ELSE
    the({ IF p4 = None THEN None ELSE
    the({ IF ss = None THEN None ELSE
    the({ IF p5 = None THEN None ELSE
          Some(new_with_input_len(h[1][1], h[1][2], m[1][1], m[1][2],
                                  s[1][1], s[1][2], ss[1][1], ss[1][2]))
        : p5 \in {expect_byte(timestamp, ss[1][3], "#")} })
        : ss \in {parse_number(timestamp, p4[1], SUBSECS_VAL_MAX)} })
        : p4 \in {expect_byte(timestamp, s[1][3], "-")} })
        : s \in {parse_number(timestamp, p3[1], SECONDS_VAL_MAX)} })
        : p3 \in {expect_byte(timestamp, m[1][3], ":")} })
        : m \in {parse_number(timestamp, p2[1], MINUTES_VAL_MAX)} })
        : p2 \in {expect_byte(timestamp, h[1][3], ":")} })
        : h \in {parse_number(timestamp, p1[1], HOURS_VAL_MAX)} })
        : p1 \in {expect_byte(timestamp, 0, "#")} })

\* Timestamp::parse: Ok(t) is Some(t), Err(Malformed) is None
parse(timestamp) == try_parse_timestamp(timestamp)


\* buf.windows(F4_MAX_TIMESTAMP_LEN).enumerate() filtered by parse: the
\* offsets of the windows that parse accepts (or panics on)
parsed_windows(buf) ==
    { offset \in 0..(Len(buf) - F4_MAX_TIMESTAMP_LEN) :
        parse(Slice(buf, offset, offset + F4_MAX_TIMESTAMP_LEN)) # None }

\* Timestamp::extract_timestamps: the <<offset, t>> of the windows that parse
\* accepts, in order (t = PANIC where parsing the window panics)
extract_timestamps(buf) ==
    the({ [k \in 1..Cardinality(offsets) |->
             the({ <<offset,
                     parse(Slice(buf, offset,
                                 offset + F4_MAX_TIMESTAMP_LEN))[1]>>
                 : offset \in { o \in offsets :
                       Cardinality({ before \in offsets : before < o })
                           = k - 1 } })]
        : offsets \in {parsed_windows(buf)} })

WriteResult(out, last, panic) == [out |-> out, last |-> last, panic |-> panic]

RECURSIVE adjust_loop(_, _, _, _, _, _, _)
\* the for loop of write_with_adjusted_timestamps and the write after it
adjust_loop(content, by, timestamps, i, last_offset, out, last_adjusted) ==
    IF i > Len(timestamps)
    THEN WriteResult(out \o Slice(content, last_offset, Len(content)),
                     last_adjusted, FALSE)
    ELSE LET after_ts_offset == timestamps[i][1]
             after_ts_timestamp == timestamps[i][2]
         IN  IF last_offset > after_ts_offset
             THEN \* &content[last_offset..after_ts_offset]: start > end
                  WriteResult(out, last_adjusted, TRUE)
             ELSE the({
                    IF adjusted = PANIC
                    THEN WriteResult(copied, last_adjusted, TRUE)
                    ELSE adjust_loop(content, by, timestamps, i + 1,
                             after_ts_offset + len(after_ts_timestamp),
                             copied \o Display(adjusted), Some(adjusted))
                    : adjusted \in {add(after_ts_timestamp, by)},
                      copied \in {out \o Slice(content, last_offset,
                                                after_ts_offset)} })

\* Timestamp::write_with_adjusted_timestamps: what it writes, what it
\* returns, and whether it panics
write_with_adjusted_timestamps(content_with_timestamps, by) ==
    the({ IF \E i \in 1..Len(timestamps) : timestamps[i][2] = PANIC
          THEN WriteResult(<<>>, None, TRUE)
          ELSE adjust_loop(content_with_timestamps, by, timestamps, 1, 0,
                           <<>>, None)
        : timestamps \in {extract_timestamps(content_with_timestamps)} })

\* Timestamp::last_timestamp: next_back() of the filtered windows
last_timestamp(buf) ==
    the({ IF offsets = {} THEN None
          ELSE the({ parse(Slice(buf, offset,
                                 offset + F4_MAX_TIMESTAMP_LEN))
                   : offset \in { o \in offsets :
                                    \A other \in offsets : other <= o } })
        : offsets \in {parsed_windows(buf)} })

----------------------------------------------------------------------------
(* Rtf tokens: src/src/transcript/rtf.rs *)

\* Token { source: Extent { start, end }, kind }
Token(kind, start, end) == [kind |-> kind, start |-> start, end |-> end]

\* Token::as_str
as_str(source, token) == Slice(source, token.start, token.end)

\* skip_while(is_ascii_digit) from 0-based offset at: the offset it stops at
skip_digits(source, at) ==
    CHOOSE stop \in at..Len(source) :
        /\ \A i \in at..(stop - 1) : is_ascii_digit(ByteAt(source, i))
        /\ stop = Len(source) \/ ~is_ascii_digit(ByteAt(source, stop))

\* find(!is_ascii_lowercase) from 0-based offset at, or source.len()
skip_lowercase(source, at) ==
    CHOOSE stop \in at..Len(source) :
        /\ \A i \in at..(stop - 1) : is_ascii_lowercase(ByteAt(source, i))
        /\ stop = Len(source) \/ ~is_ascii_lowercase(ByteAt(source, stop))

\* skip_while(ch != '\\' && ch != '{' && ch != '}') from 0-based offset at
skip_plain(source, at) ==
    CHOOSE stop \in at..Len(source) :
        /\ \A i \in at..(stop - 1) : ByteAt(source, i) \notin {"\\", "{", "}"}
        /\ stop = Len(source) \/ ByteAt(source, stop) \in {"\\", "{", "}"}

RECURSIVE consume_plain_text(_, _)
\* Token::consume_plain_text: the offset at which the plain text ends
consume_plain_text(source, from) ==
    the({ IF first >= Len(source) THEN Len(source)
          ELSE IF first + 1 < Len(source) /\ ByteAt(source, first + 1) = "'"
          THEN consume_plain_text(source, first + 2)
          ELSE first
        : first \in {skip_plain(source, from)} })

\* a parameter of one byte, whatever follows
parse_parameter_one_byte(source, from) == Token("Parameter", from, from + 1)

\* Token::parse_parameter
parse_parameter(source, from) ==
    Token("Parameter", from, skip_digits(source, from + 1))

\* Token::parse_control_word
parse_control_word(source, from) ==
    Token("ControlWord", from, skip_lowercase(source, from + 1))

\* every backslash begins a control symbol of two bytes
parse_control_sym_always(source, from) == Token("ControlSym", from, from + 2)

\* Token::parse_control_word_or_symbol
parse_control_word_or_symbol(source, from) ==
    IF from + 1 >= Len(source) THEN Token("Text", from, from + 1)
    ELSE IF ByteAt(source, from + 1) = "'"
    THEN Token("Text", from, consume_plain_text(source, from + 2))
    ELSE IF is_ascii_lowercase(ByteAt(source, from + 1))
    THEN parse_control_word(source, from)
    ELSE Token("ControlSym", from, from + 2)

\* Token::parse: Some(token) or None at the end of the source
Token_parse(source, from, from_back, last_consumed) ==
    IF from_back - from <= 0 \/ from >= Len(source) THEN None
    ELSE LET first_ch == ByteAt(source, from)
         IN  IF last_consumed = "ControlWord"
                    /\ (is_ascii_digit(first_ch) \/ first_ch = "-")
             THEN Some(parse_parameter(source, from))
             ELSE IF first_ch = "\\"
             THEN Some(parse_control_word_or_symbol(source, from))
             ELSE IF first_ch = "{"
             THEN Some(Token("GroupStart", from, from + 1))
             ELSE IF first_ch = "}"
             THEN Some(Token("GroupEnd", from, from + 1))
             ELSE IF last_consumed \in {"ControlSym", "ControlWord", "Parameter"}
             THEN Some(Token("Delimiter", from, from + 1))
             ELSE Some(Token("Text", from, consume_plain_text(source, from + 1)))

RECURSIVE Rtf_take(_, _, _, _)
\* the next n tokens of an Rtf iterator at front_pos (fewer at the end):
\* one call of next() for n = 1, else the next n \div 2 tokens and then,
\* from where they end, the rest
Rtf_take(source, front_pos, front_last_consumed, n) ==
    IF n = 0 THEN <<>>
    ELSE IF n = 1
    THEN the({ IF t = None THEN <<>> ELSE <<t[1]>>
             : t \in {Token_parse(source, front_pos, Len(source),
                                  front_last_consumed)} })
    ELSE the({ IF Len(first) < n \div 2 THEN first
               ELSE first \o Rtf_take(source, first[Len(first)].end,
                                      first[Len(first)].kind, n - n \div 2)
             : first \in {Rtf_take(source, front_pos, front_last_consumed,
                                   n \div 2)} })

\* Rtf::from(source).collect()
Rtf(source) == Rtf_take(source, 0, "None", Len(source))

----------------------------------------------------------------------------
(* Lines: src/src/transcript/lines.rs *)

LINE_PREAMBLE == <<"{", "\\", "f", "0", " ", "\\", "f", "s", "2", "4", " ", "\\", "u", "l", "0", " ", "\\", "b", "0", " ", "\\", "i", "0", " ", "\\", "c", "f", "0", " ">>
LINE_EPILOGUE == <<"\\", "p", "a", "r", "}">>
CRLF == <<"\r", "\n">>

\* the control words of the wrapper, in order
PreambleWords ==
    << <<"\\", "f">>, <<"\\", "f", "s">>, <<"\\", "u", "l">>,
       <<"\\", "b">>, <<"\\", "i">>, <<"\\", "c", "f">> >>

ends_with(s, suffix) ==
    /\ Len(s) >= Len(suffix)
    /\ Slice(s, Len(s) - Len(suffix), Len(s)) = suffix

starts_with(s, prefix) ==
    /\ Len(s) >= Len(prefix)
    /\ Slice(s, 0, Len(prefix)) = prefix

\* str::find: Some(offset of the first occurrence) or None
find(s, pattern) ==
    LET at == { i \in 0..(Len(s) - Len(pattern)) :
                    Slice(s, i, i + Len(pattern)) = pattern }
    IN  IF at = {} THEN None
        ELSE Some(CHOOSE i \in at : \A j \in at : i <= j)

is_whitespace(ch) == ch \in {" ", "\t", "\n", "\r", "\f"}

\* str::trim_start
trim_start(s) ==
    the({ SubSeq(s, first, Len(s))
        : first \in { k \in 1..(Len(s) + 1) :
                        /\ \A i \in 1..(k - 1) : is_whitespace(s[i])
                        /\ k = Len(s) + 1 \/ ~is_whitespace(s[k]) } })

\* str::trim_end
trim_end(s) ==
    the({ SubSeq(s, 1, last)
        : last \in { k \in 0..Len(s) :
                       /\ \A i \in (k + 1)..Len(s) : is_whitespace(s[i])
                       /\ k = 0 \/ ~is_whitespace(s[k]) } })

\* str::trim
trim(s) == trim_end(trim_start(s))

\* the bytes 0x80..0xBF stand inside a character of more than one byte;
\* "xC3", "xA4" are the two bytes of U+00E4
ContinuationBytes == {"x80", "xA4", "xBC", "xBF"}

\* str::is_char_boundary
is_char_boundary(s, index) ==
    \/ index = 0
    \/ index = Len(s)
    \/ index < Len(s) /\ ByteAt(s, index) \notin ContinuationBytes

\* the 19 tokens that Lines::trim_preamble_and_epilogue asks for
preamble_matched(line, rtf) ==
    /\ Len(rtf) = 19
    /\ rtf[1].kind = "GroupStart"
    /\ \A k \in 0..5 :
         /\ rtf[2 + 3 * k].kind = "ControlWord"
         /\ as_str(line, rtf[2 + 3 * k]) = PreambleWords[k + 1]
         /\ rtf[3 + 3 * k].kind = "Parameter"
         /\ rtf[4 + 3 * k].kind = "Delimiter"

\* &line[content_start..] panics when content_start is inside a character
preamble_slice_panics(line) ==
    the({ preamble_matched(line, rtf) /\ ~is_char_boundary(line, rtf[19].end)
        : rtf \in {Rtf_take(line, 0, "None", 19)} })

\* Lines::trim_preamble_and_epilogue on the first 19 tokens of the line:
\* Some(inner content) or None
preamble_trimmed(line, rtf) ==
        IF preamble_matched(line, rtf)
        THEN LET without_preamble == Slice(line, rtf[19].end, Len(line))
             IN  IF ends_with(without_preamble, LINE_EPILOGUE)
                 THEN Some(Slice(without_preamble, 0,
                           Len(without_preamble) - Len(LINE_EPILOGUE)))
                 ELSE None
        ELSE None

trim_preamble_and_epilogue(line) ==
    the({ preamble_trimmed(line, rtf)
        : rtf \in {Rtf_take(line, 0, "None", 19)} })

\* a Line: Utterance { speaker_before, speaker, speaker_after, speech,
\* speech_after }, Paragraph { content } or Other(content)
Line(kind, speaker_before, speaker, speaker_after, speech, speech_after, content) ==
    [kind |-> kind, speaker_before |-> speaker_before, speaker |-> speaker,
     speaker_after |-> speaker_after, speech |-> speech,
     speech_after |-> speech_after, content |-> content]

Utterance(speaker_before, speaker, speaker_after, speech, speech_after) ==
    Line("Utterance", speaker_before, speaker, speaker_after, speech,
         speech_after, <<>>)

Paragraph(content) == Line("Paragraph", <<>>, <<>>, <<>>, <<>>, <<>>, content)

Other(line) == Line("Other", <<>>, <<>>, <<>>, <<>>, <<>>, line)

\* no Line: the thread panicked on a slice inside a character
Panicked(line) == Line("panic", <<>>, <<>>, <<>>, <<>>, <<>>, line)

\* a variant of the offsets in which the speech begins where the speaker
\* begins, that is before the end of the speaker
utterance_offsets_overlapping(par, text_content) ==
    Some(<<text_content[1].end, text_content[1].start, text_content[1].end, 1>>)

\* the offsets speaker_end, speech_start, speech_end and the number of text
\* tokens consumed when the if / else if chain of try_from is left; None is
\* an early return of Err, an offset of -1 is a None offset
utterance_offsets(par, text_content) ==
    LET speaker == text_content[1]
        speaker_str == as_str(par, speaker)
    IN  IF ends_with(speaker_str, <<":">>) /\ Len(speaker_str) > 1
        THEN IF Len(text_content) < 2 THEN None
             ELSE Some(<<speaker.end - 1, text_content[2].start,
                         text_content[2].end, 2>>)
        ELSE IF find(speaker_str, <<":", " ">>) # None
        THEN LET speaker_end ==
                     speaker.start + find(speaker_str, <<":", " ">>)[1]
             IN  Some(<<speaker_end, speaker_end + 2, speaker.end, 1>>)
        ELSE IF Len(text_content) < 2 THEN None
        ELSE LET after_colon == text_content[2]
                 after_colon_str == as_str(par, after_colon)
             IN  IF after_colon_str = <<":">> \/ after_colon_str = <<":", " ">>
                 THEN IF Len(text_content) < 3 THEN None
                      ELSE Some(<<speaker.end, text_content[3].start,
                                  text_content[3].end, 3>>)
                 ELSE IF Len(after_colon_str) > 2
                            /\ starts_with(after_colon_str, <<":", " ">>)
                 THEN Some(<<speaker.end, after_colon.start + 2,
                             after_colon.end, 2>>)
                 ELSE Some(<<speaker.end, -1, -1, 2>>)

\* impl TryFrom<&str> for Utterance, given the text tokens of par:
\* Some(utterance) or None for Err(())
utterance_from(par, text_content) ==
    IF text_content = <<>> THEN None
    ELSE the({ IF o = None THEN None
                ELSE LET speaker_start == text_content[1].start
                         speaker_end == o[1][1]
                         speech_start == o[1][2]
                         speech_end ==
                             IF Len(text_content) > o[1][4]
                             THEN text_content[Len(text_content)].end
                             ELSE o[1][3]
                     IN  IF speech_start < 0 \/ speech_end < 0 THEN None
                         ELSE Some(Utterance(
                                Slice(par, 0, speaker_start),
                                Slice(par, speaker_start, speaker_end),
                                Slice(par, speaker_end, speech_start),
                                Slice(par, speech_start, speech_end),
                                Slice(par, speech_end, Len(par))))
             : o \in {utterance_offsets(par, text_content)} })

\* the number of text tokens whose as_str() or start() try_from uses
text_tokens_sliced(par, text_content) ==
    IF Len(text_content) < 2 \/ ~is_char_boundary(par, text_content[1].start)
    THEN 1
    ELSE LET speaker_str == as_str(par, text_content[1])
         IN  IF ends_with(speaker_str, <<":">>) /\ Len(speaker_str) > 1
             THEN 2
             ELSE IF find(speaker_str, <<":", " ">>) # None THEN 1
             ELSE IF /\ Len(text_content) > 2
                     /\ is_char_boundary(par, text_content[2].start)
                     /\ as_str(par, text_content[2]) \in {<<":">>, <<":", " ">>}
             THEN 3
             ELSE 2

\* try_from slices par at the start of a token that begins inside a
\* character: as_str() and &par[..] panic
try_from_panics(par) ==
    the({ /\ text_content # <<>>
          /\ \E i \in 1..text_tokens_sliced(par, text_content) :
                ~is_char_boundary(par, text_content[i].start)
        : text_content \in {SelectSeq(Rtf(par), LAMBDA t : t.kind = "Text")} })

Utterance_try_from(par) ==
    the({ utterance_from(par, text_content)
        : text_content \in {SelectSeq(Rtf(par), LAMBDA t : t.kind = "Text")} })

\* Lines::parse_line
parse_line(line) ==
    IF preamble_slice_panics(line) THEN Panicked(line)
    ELSE
    the({ IF inner = None THEN Other(line)
            ELSE IF try_from_panics(inner[1]) THEN Panicked(line)
            ELSE the({ IF utterance # None THEN utterance[1]
                        ELSE Paragraph(inner[1])
                     : utterance \in {Utterance_try_from(inner[1])} })
        : inner \in {trim_preamble_and_epilogue(line)} })

\* Utterance::speaker
speaker_of(utterance) == trim(utterance.speaker)

\* Utterance::speech
speech_of(utterance) == trim(utterance.speech)

\* Line::utterance
is_utterance(line) == line.kind = "Utterance"


----------------------------------------------------------------------------
(* Transcript: src/src/transcript/transcript.rs *)

PREAMBLE_END_PATTERN == <<"\\", "j", "e", "x", "p", "a", "n", "d", "\r", "\n">>
EPILOGUE == <<"\r", "\n", "}">>

Transcript(result, preamble, content, interview_end_time) ==
    [result |-> result, preamble |-> preamble, content |-> content,
     interview_end_time |-> interview_end_time]

\* impl TryFrom<String> for Transcript: result is "Ok", the FormatError, or
\* "Panic"
Transcript_try_from(buf) ==
    LET content_end == Len(buf) - Len(EPILOGUE)
        failed(why) == Transcript(why, <<>>, <<>>, zero)
    IN  the({
          IF start = None THEN failed("MalformedPreamble")
          ELSE IF ~ends_with(buf, EPILOGUE) THEN failed("MalformedEpilogue")
          ELSE IF start[1] + Len(PREAMBLE_END_PATTERN) > content_end
          THEN failed("Panic")
          ELSE the({
                 IF last = None THEN failed("NoTimestampsFound")
                 ELSE IF last[1] = PANIC THEN failed("Panic")
                 ELSE the({
                        IF end_time = PANIC THEN failed("Panic")
                        ELSE Transcript("Ok",
                                 Slice(buf, 0,
                                       start[1] + Len(PREAMBLE_END_PATTERN)),
                                 Slice(buf,
                                       start[1] + Len(PREAMBLE_END_PATTERN),
                                       content_end),
                                 end_time)
                        : end_time \in {round_up(last[1])} })
                 : last \in {last_timestamp(buf)} })
          : start \in {find(buf, PREAMBLE_END_PATTERN)} })

RECURSIVE str_lines(_)
\* str::lines: split at "\n", a "\r" before it dropped; no empty last line
str_lines(s) ==
    IF s = <<>> THEN <<>>
    ELSE the({ IF nl = None THEN <<s>>
                ELSE LET line == Slice(s, 0, nl[1])
                     IN  <<IF line # <<>> /\ line[Len(line)] = "\r"
                           THEN SubSeq(line, 1, Len(line) - 1) ELSE line>>
                             \o the({ str_lines(rest)
                                    : rest \in {Slice(s, nl[1] + 1, Len(s))} })
             : nl \in {find(s, <<"\n">>)} })

\* Transcript::lines, collected
Lines(transcript) ==
    the({ [i \in 1..Len(split) |-> parse_line(split[i])]
        : split \in {str_lines(transcript.content)} })

----------------------------------------------------------------------------
(* Writing lines: src/src/transcript/lines.rs *)

\* Utterance::write_adjusted_with_extra_speech
write_adjusted_with_extra_speech(self, adjust_by, extra_speech, extra_speech_adjust) ==
    LET label == LINE_PREAMBLE \o self.speaker_before \o self.speaker
                     \o self.speaker_after
        space == IF extra_speech # <<>> THEN <<" ">> ELSE <<>>
    IN  the({ IF own.panic THEN WriteResult(label \o own.out, None, TRUE)
              ELSE the({
                     IF extra.panic
                     THEN WriteResult(label \o own.out \o space \o extra.out,
                                      None, TRUE)
                     ELSE WriteResult(label \o own.out \o space \o extra.out
                                          \o self.speech_after
                                          \o LINE_EPILOGUE \o CRLF,
                                      None, FALSE)
                     : extra \in {write_with_adjusted_timestamps(
                                     trim(extra_speech),
                                     extra_speech_adjust)} })
            : own \in {write_with_adjusted_timestamps(trim(self.speech),
                                                      adjust_by)} })

\* Utterance::write_adjusted
Utterance_write_adjusted(self, adjust_by) ==
    write_adjusted_with_extra_speech(self, adjust_by, <<>>, zero)

\* Paragraph::write_adjusted
Paragraph_write_adjusted(self, adjust_by) ==
    the({ IF content.panic
          THEN WriteResult(LINE_PREAMBLE \o content.out, None, TRUE)
          ELSE WriteResult(LINE_PREAMBLE \o content.out \o LINE_EPILOGUE
                               \o CRLF, None, FALSE)
        : content \in {write_with_adjusted_timestamps(self.content,
                                                      adjust_by)} })

\* Line::write_adjusted
write_adjusted(self, adjust_by) ==
    IF self.kind = "Utterance" THEN Utterance_write_adjusted(self, adjust_by)
    ELSE IF self.kind = "Paragraph"
    THEN Paragraph_write_adjusted(self, adjust_by)
    ELSE WriteResult(self.content \o CRLF, None, FALSE)

----------------------------------------------------------------------------
(* Merging: src/src/transcript/merge.rs *)

\* one call that writes to the sink: which call, the line it was called on,
\* the shift, the extra speech and its shift (spliced lines), the bytes
\* written, and whether the call panicked
Written(call, line, by, extra, extra_by, result) ==
    [call |-> call, line |-> line, by |-> by, extra |-> extra,
     extra_by |-> extra_by, out |-> result.out, panic |-> result.panic]

\* Line::write_adjusted called from merge.rs
line_written(call, line, by) ==
    Written(call, line, by, <<>>, zero, write_adjusted(line, by))

\* the writes up to and including the first one that panics
RECURSIVE until_panic(_)
until_panic(writes) ==
    IF writes = <<>> THEN <<>>
    ELSE IF Head(writes).panic THEN <<Head(writes)>>
    ELSE <<Head(writes)>> \o until_panic(Tail(writes))

\* write_last_and_first_line without the withheld line: lines that are not
\* spliced lose the last line of the previous transcript
write_last_and_first_line_only_first(last_line_and_shift, first_line, first_shift) ==
    LET has_last == last_line_and_shift # None
        last_line == last_line_and_shift[1][1]
        last_shift == last_line_and_shift[1][2]
    IN  IF /\ has_last
           /\ is_utterance(last_line)
           /\ is_utterance(first_line)
           /\ speaker_of(last_line) = speaker_of(first_line)
        THEN <<Written("spliced", last_line, last_shift, first_line, first_shift,
                       write_adjusted_with_extra_speech(last_line,
                           last_shift, speech_of(first_line), first_shift))>>
        ELSE <<line_written("first_line", first_line, first_shift)>>

\* write_last_and_first_line; last_line_and_shift is None or
\* Some(<<line, shift>>)
write_last_and_first_line(last_line_and_shift, first_line, first_shift) ==
    LET has_last == last_line_and_shift # None
        last_line == last_line_and_shift[1][1]
        last_shift == last_line_and_shift[1][2]
    IN  IF /\ has_last
           /\ is_utterance(last_line)
           /\ is_utterance(first_line)
           /\ speaker_of(last_line) = speaker_of(first_line)
        THEN <<Written("spliced", last_line, last_shift, first_line, first_shift,
                       write_adjusted_with_extra_speech(last_line,
                           last_shift, speech_of(first_line), first_shift))>>
        ELSE until_panic(
                (IF has_last
                 THEN <<line_written("last_line", last_line, last_shift)>>
                 ELSE <<>>)
                    \o <<line_written("first_line", first_line, first_shift)>>)

\* next_except_last_line that writes nothing at all for a transcript without
\* lines
next_except_last_line_skip_empty(previous, previous_lines, lines, current_shift) ==
    LET previous_last_line_and_shift ==
            IF previous # None /\ previous_lines # <<>>
            THEN Some(<<previous_lines[Len(previous_lines)], previous[1][2]>>)
            ELSE None
    IN  IF lines = <<>>
        THEN <<>>
        ELSE until_panic(
                write_last_and_first_line(previous_last_line_and_shift,
                                          lines[1], current_shift)
                    \o [i \in 1..(IF Len(lines) > 2 THEN Len(lines) - 2 ELSE 0)
                            |-> line_written("line", lines[i + 1],
                                             current_shift)])

\* write_next_except_last_line once lines() of both transcripts are taken;
\* previous is None or Some(<<transcript, shift>>)
next_except_last_line(previous, previous_lines, lines, current_shift) ==
    LET previous_last_line_and_shift ==
            IF previous # None /\ previous_lines # <<>>
            THEN Some(<<previous_lines[Len(previous_lines)], previous[1][2]>>)
            ELSE None
    IN  IF lines = <<>>
        THEN IF previous_last_line_and_shift # None
             THEN <<line_written("last_line",
                                 previous_last_line_and_shift[1][1],
                                 previous_last_line_and_shift[1][2])>>
             ELSE <<>>
        ELSE until_panic(
                write_last_and_first_line(previous_last_line_and_shift,
                                          lines[1], current_shift)
                    \o [i \in 1..(IF Len(lines) > 2 THEN Len(lines) - 2 ELSE 0)
                            |-> line_written("line", lines[i + 1],
                                             current_shift)])

\* write_next_except_last_line; previous is None or
\* Some(<<transcript, shift>>), current is <<transcript, shift>>
write_next_except_last_line(previous, current) ==
    the({ next_except_last_line(previous, both[1], both[2], current[2])
        : both \in {<<IF previous # None THEN Lines(previous[1][1]) ELSE <<>>, Lines(current[1])>>} })

----------------------------------------------------------------------------
(* The transcripts merged *)

\* an empty paragraph; I speaks; Z speaks until 00:04:50-3
FILE_A ==
    <<"{", "A">>
        \o PREAMBLE_END_PATTERN
        \o LINE_PREAMBLE
        \o LINE_EPILOGUE
        \o CRLF
        \o LINE_PREAMBLE
        \o <<"{", "\\", "b", "1", " ", "I", "}", "{", "\\", "b", "0", " ", ":", " ", "c", " ", "#", "0", "0", ":", "0", "1", ":", "0", "2", "-", "0", "#", "}">>
        \o LINE_EPILOGUE
        \o CRLF
        \o LINE_PREAMBLE
        \o <<"{", "\\", "b", "1", " ", "Z", ":", "}", "{", "\\", "b", "0", " ", "b", " ", "#", "0", "0", ":", "0", "4", ":", "5", "0", "-", "3", "#", "}">>
        \o LINE_EPILOGUE
        \o EPILOGUE

\* Z speaks; a paragraph; I speaks, the speech ends in a blank
FILE_B ==
    <<"{", "B">>
        \o PREAMBLE_END_PATTERN
        \o LINE_PREAMBLE
        \o <<"Z", ":", " ", "a", " ", "#", "0", "0", ":", "0", "0", ":", "1", "0", "-", "0", "#">>
        \o LINE_EPILOGUE
        \o CRLF
        \o LINE_PREAMBLE
        \o <<"n", "o", "t", "e", " ", "#", "0", "0", ":", "0", "0", ":", "2", "0", "-", "0", "#">>
        \o LINE_EPILOGUE
        \o CRLF
        \o LINE_PREAMBLE
        \o <<"I", ":", " ", "o", "k", " ", "#", "0", "0", ":", "0", "0", ":", "3", "1", "-", "6", "#", " ">>
        \o LINE_EPILOGUE
        \o EPILOGUE

\* no line at all; the only timestamp stands in the preamble
FILE_C ==
    <<"{", "C", " ", "#", "0", "0", ":", "0", "1", ":", "3", "0", "-", "0", "#">>
        \o PREAMBLE_END_PATTERN
        \o EPILOGUE

\* one line: Z, with no speech
FILE_D ==
    <<"{", "D", " ", "#", "0", "0", ":", "0", "0", ":", "4", "0", "-", "0", "#">>
        \o PREAMBLE_END_PATTERN
        \o LINE_PREAMBLE
        \o <<"Z", ":", " ">>
        \o LINE_EPILOGUE
        \o EPILOGUE

\* unrecognized content; Z, the timestamp written with one hour digit
FILE_E ==
    <<"{", "E">>
        \o PREAMBLE_END_PATTERN
        \o <<"{", "\\", "p", "a", "r", "d", " ", "p", "l", "a", "i", "n", "}">>
        \o CRLF
        \o LINE_PREAMBLE
        \o <<"Z", ":", " ", "d", " ", "#", "0", ":", "0", "0", ":", "5", "5", "-", "0", "#">>
        \o LINE_EPILOGUE
        \o EPILOGUE

\* I speaks twice; the last timestamp has three hour digits
FILE_F ==
    <<"{", "F">>
        \o PREAMBLE_END_PATTERN
        \o LINE_PREAMBLE
        \o <<"I", ":", " ", "e", " ", "#", "0", "0", ":", "0", "0", ":", "0", "5", "-", "0", "#">>
        \o LINE_EPILOGUE
        \o CRLF
        \o LINE_PREAMBLE
        \o <<"I", ":", " ", "f", " ", "#", "1", "0", "0", ":", "0", "0", ":", "0", "0", "-", "0", "#">>
        \o LINE_EPILOGUE
        \o EPILOGUE

Files == <<FILE_A, FILE_B, FILE_C, FILE_D, FILE_E, FILE_F>>

\* Transcript::from_file of each file
Loaded == [f \in 1..Len(Files) |-> Transcript_try_from(Files[f])]

\* lines() of each loaded transcript
LinesOf == [f \in 1..Len(Files) |-> Lines(Loaded[f])]

\* at most this many transcripts are merged
MaxTranscripts == 3


\* the variables of the specifications that are not running
MergeIdle ==
    /\ input = <<>> /\ transcripts = 1 /\ to = <<>>
    /\ last_transcript = 0 /\ shift = zero /\ pc = "idle"

RewriteIdle ==
    /\ rw_text = <<>> /\ rw_by = zero /\ rw_out = <<>> /\ rw_pc = "idle"

TimestampIdle ==
    /\ ts_a = zero /\ ts_b = zero /\ ts_op = "idle" /\ ts_r = None

ParseIdle ==
    /\ ps_text = <<>> /\ ps_r = None /\ ps_pc = "idle" /\ ps_len = 0

LinesIdle ==
    /\ ln_line = <<>> /\ ln_tokens = <<>> /\ ln_class = None
    /\ ln_by = zero /\ ln_out = None /\ ln_pc = "idle"

LoadIdle ==
    /\ ld_paths = <<>> /\ ld_next = 1 /\ ld_last = None
    /\ ld_merged = <<>> /\ ld_file = "absent" /\ ld_pc = "idle"

merge_vars == <<input, transcripts, to, last_transcript, shift, pc>>
rw_vars == <<rw_text, rw_by, rw_out, rw_pc>>
ts_vars == <<ts_a, ts_b, ts_op, ts_r>>
ps_vars == <<ps_text, ps_r, ps_pc, ps_len>>
ln_vars == <<ln_line, ln_tokens, ln_class, ln_by, ln_out, ln_pc>>
ld_vars == <<ld_paths, ld_next, ld_last, ld_merged, ld_file, ld_pc>>

\* the files that Transcript::from_file loads
Readable == { f \in 1..Len(Files) : Loaded[f].result = "Ok" }

RECURSIVE InputsUpTo(_)
\* the sequences of at most n loaded files
InputsUpTo(n) ==
    IF n = 0 THEN {<<>>}
    ELSE the({ shorter \cup { Append(i, f) :
                                 i \in { j \in shorter : Len(j) = n - 1 },
                                 f \in Readable }
             : shorter \in {InputsUpTo(n - 1)} })

Inputs == InputsUpTo(MaxTranscripts)

\* the transcript at a position of the iterator
transcript_at(position) == Loaded[input[position]]

Init ==
    /\ input \in Inputs
    /\ transcripts = 1
    /\ to = <<>>
    /\ last_transcript = 0
    /\ shift = zero
    /\ pc = "start"
    /\ TimestampIdle
    /\ RewriteIdle
    /\ ParseIdle
    /\ LinesIdle /\ LoadIdle

\* an empty sequence that still gets the epilogue written
ReturnEmpty_with_epilogue ==
    /\ pc = "start"
    /\ input = <<>>
    /\ to' = <<[step |-> 0, call |-> "epilogue", out |-> EPILOGUE,
                panic |-> FALSE]>>
    /\ pc' = "done"
    /\ UNCHANGED <<input, transcripts, last_transcript, shift>>
    /\ UNCHANGED <<ts_vars, rw_vars, ps_vars, ln_vars, ld_vars>>

\* write_merged_transcript, peek() is None: return Ok(())
ReturnEmpty ==
    /\ pc = "start"
    /\ input = <<>>
    /\ pc' = "done"
    /\ UNCHANGED <<input, transcripts, to, last_transcript, shift>>
    /\ UNCHANGED <<ts_vars, rw_vars, ps_vars, ln_vars, ld_vars>>

\* the preamble taken from the last transcript instead of the first
WritePreamble_of_last ==
    /\ pc = "start"
    /\ input # <<>>
    /\ to' = <<[step |-> 0, call |-> "preamble",
                out |-> transcript_at(Len(input)).preamble, panic |-> FALSE]>>
    /\ pc' = "loop"
    /\ UNCHANGED <<input, transcripts, last_transcript, shift>>
    /\ UNCHANGED <<ts_vars, rw_vars, ps_vars, ln_vars, ld_vars>>

\* write_merged_transcript, peek() is Some(first): the preamble is written
WritePreamble ==
    /\ pc = "start"
    /\ input # <<>>
    /\ to' = <<[step |-> 0, call |-> "preamble",
                out |-> transcript_at(1).preamble, panic |-> FALSE]>>
    /\ pc' = "loop"
    /\ UNCHANGED <<input, transcripts, last_transcript, shift>>
    /\ UNCHANGED <<ts_vars, rw_vars, ps_vars, ln_vars, ld_vars>>

\* the writes of one step, each with the number of the step
in_step(step, writes) ==
    [i \in 1..Len(writes) |-> [step |-> step] @@ writes[i]]

\* one iteration of for transcript in transcripts
Iterate ==
    /\ pc = "loop"
    /\ transcripts <= Len(input)
    /\ LET transcript == transcript_at(transcripts)
           previous == IF last_transcript = 0 THEN None
                       ELSE Some(<<transcript_at(last_transcript), shift>>)
           next_shift ==
               add(shift, IF last_transcript = 0 THEN zero
                          ELSE transcript_at(last_transcript).interview_end_time)
       IN  IF next_shift = PANIC
           THEN /\ pc' = "panic"
                /\ UNCHANGED <<to, transcripts, last_transcript, shift>>
           ELSE \E writes \in {write_next_except_last_line(previous,
                                    <<transcript, next_shift>>)} :
                    /\ to' = to \o in_step(transcripts, writes)
                    /\ IF writes # <<>> /\ writes[Len(writes)].panic
                       THEN /\ pc' = "panic"
                            /\ UNCHANGED <<transcripts, last_transcript, shift>>
                       ELSE /\ last_transcript' = transcripts
                            /\ shift' = next_shift
                            /\ transcripts' = transcripts + 1
                            /\ pc' = "loop"
    /\ UNCHANGED input
    /\ UNCHANGED <<ts_vars, rw_vars, ps_vars, ln_vars, ld_vars>>

\* after the loop: the excluded last line, then the epilogue
Finish ==
    /\ pc = "loop"
    /\ transcripts > Len(input)
    /\ \E lines \in {IF last_transcript = 0 THEN <<>>
                      ELSE Lines(transcript_at(last_transcript))} :
         \E last \in {IF lines = <<>> THEN <<>>
                       ELSE <<line_written("last_line", lines[Len(lines)],
                                           shift)>>} :
            IF last # <<>> /\ last[1].panic
            THEN /\ pc' = "panic"
                 /\ to' = to \o in_step(transcripts, last)
            ELSE /\ pc' = "done"
                 /\ to' = to \o in_step(transcripts, last)
                        \o <<[step |-> transcripts, call |-> "epilogue",
                              out |-> EPILOGUE, panic |-> FALSE]>>
    /\ UNCHANGED <<input, transcripts, last_transcript, shift>>
    /\ UNCHANGED <<ts_vars, rw_vars, ps_vars, ln_vars, ld_vars>>

Next == ReturnEmpty \/ WritePreamble \/ Iterate \/ Finish

Spec == Init /\ [][Next]_vars

RECURSIVE bytes_of(_)
\* the bytes of the sink, in the order written
bytes_of(writes) ==
    IF writes = <<>> THEN <<>> ELSE Head(writes).out \o bytes_of(Tail(writes))

----------------------------------------------------------------------------
(* The timestamp operations on their own: operands as parse yields them *)

\* the component values tried
HourValues == {0, 2, 58, 999, 4095}
MinuteValues == {0, 3, 58, 59}
SecondValues == {0, 4, 57}
SubsecValues == {0, 9}

CanonicalText(h, m, s, ss) ==
    <<"#">> \o Pad2(h) \o <<":">> \o Pad2(m) \o <<":">> \o Pad2(s)
        \o <<"-">> \o DecDigits(ss) \o <<"#">>

\* texts with digits left out, as the source's tests parse them
ShortTexts ==
    { <<"#", "2", ":", "0", "3", ":", "0", "4", "-", "9", "#">>,
      <<"#", "1", ":", "2", ":", "3", "-", "4", "#">> }

TimestampTexts ==
    { CanonicalText(h, m, s, ss) :
        h \in HourValues, m \in MinuteValues,
        s \in SecondValues, ss \in SubsecValues } \cup ShortTexts

Operands == { parse(text)[1] : text \in TimestampTexts }

InitTimestamp ==
    /\ ts_a \in Operands
    /\ ts_b \in Operands
    /\ ts_op = "operands"
    /\ ts_r = None
    /\ MergeIdle /\ RewriteIdle /\ ParseIdle /\ LinesIdle /\ LoadIdle

\* a + b
Add ==
    /\ ts_op = "operands"
    /\ ts_op' = "add"
    /\ ts_r' = Some(add(ts_a, ts_b))
    /\ UNCHANGED <<ts_a, ts_b, merge_vars, rw_vars, ps_vars, ln_vars, ld_vars>>

\* a.round_up()
RoundUp ==
    /\ ts_op = "operands"
    /\ ts_op' = "round_up"
    /\ ts_r' = Some(round_up(ts_a))
    /\ UNCHANGED <<ts_a, ts_b, merge_vars, rw_vars, ps_vars, ln_vars, ld_vars>>

\* Timestamp::parse(format!("{}", t)) of a result of add or round_up
Reparse ==
    /\ ts_op \in {"add", "round_up"}
    /\ ts_r[1] # PANIC
    /\ ts_op' = "reparse"
    /\ ts_a' = ts_r[1]
    /\ ts_r' = parse(Display(ts_r[1]))
    /\ UNCHANGED <<ts_b, merge_vars, rw_vars, ps_vars, ln_vars, ld_vars>>

\* a < b and a == b
Compare ==
    /\ ts_op = "operands"
    /\ ts_op' = "cmp"
    /\ ts_r' = Some([lt |-> lt(ts_a, ts_b), eq |-> eq(ts_a, ts_b)])
    /\ UNCHANGED <<ts_a, ts_b, merge_vars, rw_vars, ps_vars, ln_vars, ld_vars>>

NextTimestamp == Add \/ RoundUp \/ Reparse \/ Compare

SpecTimestamp == InitTimestamp /\ [][NextTimestamp]_vars


----------------------------------------------------------------------------
(* write_with_adjusted_timestamps on its own *)

\* a text is Before \o First \o Between \o Second \o After
TextBefore == { <<>>, <<"a", " ">> }
TextBetween == { <<>>, <<" ">> }
TextAfter == { <<>>, <<".">>, <<" ", "a", "n", "d", " ", "s", "o", " ", "o", "n", ",", " ", "e", "t", "c", ".">> }
TextTimestamps ==
    { <<>>,
      <<"#", "0", "0", ":", "0", "0", ":", "1", "0", "-", "0", "#">>,
      <<"#", "0", ":", "0", "0", ":", "0", "5", "-", "0", "#">>,
      <<"#", "1", ":", "2", ":", "3", "-", "4", "#">>,
      <<"#", "1", "0", "0", ":", "0", "0", ":", "0", "0", "-", "0", "#">>,
      <<"#", "0", "0", ":", "6", "0", ":", "0", "0", "-", "0", "#">>,
      <<"#", "0", ":", "0", "0", "0", ":", "0", "-", "0", "#">>,
      <<"#", "1", ":", "2", ":", "3", "-", "4", "#", "5", ":", "6", ":", "7", "-", "8", "#">> }

Texts ==
    { b \o t1 \o m \o t2 \o a :
        b \in TextBefore, t1 \in TextTimestamps, m \in TextBetween,
        t2 \in TextTimestamps, a \in TextAfter }

Shifts ==
    { zero,
      parse(<<"#", "0", "0", ":", "0", "5", ":", "0", "0", "-", "0", "#">>)[1],
      parse(<<"#", "4", "0", "9", "5", ":", "0", ":", "0", "-", "0", "#">>)[1] }

InitRewrite ==
    /\ rw_text \in Texts
    /\ rw_by \in Shifts
    /\ rw_out = WriteResult(<<>>, None, FALSE)
    /\ rw_pc = "call"
    /\ MergeIdle /\ TimestampIdle /\ ParseIdle /\ LinesIdle /\ LoadIdle

Rewrite ==
    /\ rw_pc = "call"
    /\ rw_out' = write_with_adjusted_timestamps(rw_text, rw_by)
    /\ rw_pc' = "ret"
    /\ UNCHANGED <<rw_text, rw_by, merge_vars, ts_vars, ps_vars, ln_vars, ld_vars>>

NextRewrite == Rewrite

SpecRewrite == InitRewrite /\ [][NextRewrite]_vars


----------------------------------------------------------------------------
(* Properties of the timestamp codec *)

\* elapsed time in tenths of a second
Tenths(t) == ((t.hours * 60 + t.minutes) * 60 + t.seconds) * 10 + t.subsecs

RECURSIVE NumberOf(_, _, _)
\* the value of the n digits of text that start at 0-based offset at
NumberOf(text, at, n) ==
    IF n = 0 THEN 0
    ELSE NumberOf(text, at, n - 1) * 10 + DigitValue(ByteAt(text, at + n - 1))

AllDigits(text, at, n) ==
    \A i \in 0..(n - 1) : is_ascii_digit(ByteAt(text, at + i))

\* text has a substring #H{hl}:M{ml}:S{sl}-D# at 0-based offset at, with
\* hours <= 4095, minutes <= 59 and seconds <= 59
MatchesAt(text, at, hl, ml, sl) ==
    /\ at + hl + ml + sl + 6 <= Len(text)
    /\ ByteAt(text, at) = "#"
    /\ AllDigits(text, at + 1, hl)
    /\ ByteAt(text, at + 1 + hl) = ":"
    /\ AllDigits(text, at + 2 + hl, ml)
    /\ ByteAt(text, at + 2 + hl + ml) = ":"
    /\ AllDigits(text, at + 3 + hl + ml, sl)
    /\ ByteAt(text, at + 3 + hl + ml + sl) = "-"
    /\ AllDigits(text, at + 4 + hl + ml + sl, 1)
    /\ ByteAt(text, at + 5 + hl + ml + sl) = "#"
    /\ NumberOf(text, at + 1, hl) <= 4095
    /\ NumberOf(text, at + 2 + hl, ml) <= 59
    /\ NumberOf(text, at + 3 + hl + ml, sl) <= 59

Widths == (1..4) \X (1..2) \X (1..2)

\* the tenths of the timestamp matched at offset at with widths w
MatchedTenths(text, at, w) ==
    ((NumberOf(text, at + 1, w[1]) * 60
        + NumberOf(text, at + 2 + w[1], w[2])) * 60
        + NumberOf(text, at + 3 + w[1] + w[2], w[3])) * 10
        + NumberOf(text, at + 4 + w[1] + w[2] + w[3], 1)

\* #HH:MM:SS-D# of an elapsed time, with no bound on the hours
FormatTenths(n) ==
    CanonicalText(n \div 36000, (n \div 600) % 60, (n \div 10) % 60, n % 10)

RECURSIVE Shifted(_, _, _)
\* text from offset at on, every embedded timestamp replaced by the format
\* of its sum with the shift, everything else copied
Shifted(text, at, by) ==
    IF at >= Len(text) THEN <<>>
    ELSE LET ws == { w \in Widths : MatchesAt(text, at, w[1], w[2], w[3]) }
         IN  IF ws = {}
             THEN <<ByteAt(text, at)>> \o Shifted(text, at + 1, by)
             ELSE LET w == CHOOSE x \in ws : TRUE
                  IN  FormatTenths(MatchedTenths(text, at, w) + Tenths(by))
                          \o Shifted(text, at + w[1] + w[2] + w[3] + 6, by)

\* C8: for every text and every shift, write_with_adjusted_timestamps emits
\* the text with every embedded #H{1,4}:M{1,2}:S{1,2}-D#, wherever it occurs
\* (also at the very end), replaced by format(match + shift), and every other
\* byte copied unchanged and in order.
C8_EveryTimestampShifted ==
    rw_pc = "ret" =>
        /\ ~rw_out.panic
        /\ rw_out.out = Shifted(rw_text, 0, rw_by)

\* the value Timestamp::new holds for the components of t
canonicalize_len(t) == new(t.hours, t.minutes, t.seconds, t.subsecs)

\* C9: for every valid timestamp t held with canonical digit widths, every
\* value produced by add or round_up included, for all hours 0..4095,
\* parse(format(t)) succeeds and is equal to t.
C9_ParseFormatRoundTrip ==
    (ts_op = "reparse" /\ ts_a = canonicalize_len(ts_a)) => ts_r = Some(ts_a)

\* the sums of the components of the operands, with the carries
SumSubsecs == ts_a.subsecs + ts_b.subsecs
SumSeconds == SumSubsecs \div 10 + ts_a.seconds + ts_b.seconds
SumMinutes == SumSeconds \div 60 + ts_a.minutes + ts_b.minutes
SumHours == SumMinutes \div 60 + ts_a.hours + ts_b.hours

CarriedSum(r) ==
    /\ r # PANIC
    /\ r.subsecs = SumSubsecs % 10
    /\ r.seconds = SumSeconds % 60
    /\ r.minutes = SumMinutes % 60
    /\ r.hours = SumHours
    /\ Tenths(r) = Tenths(ts_a) + Tenths(ts_b)

\* C10 as stated: for all valid timestamps a and b, a + b is the timestamp
\* with subseconds (a.sub + b.sub) mod 10, seconds and minutes the carried
\* sums mod 60 and hours a.hours + b.hours plus the minute carry, so that
\* its elapsed time in tenths of a second is the sum of those of a and b.
C10_AddForAllOperands ==
    ts_op = "add" => CarriedSum(ts_r[1])

\* C10, amended: the same whenever a.hours + b.hours plus the minute carry
\* is at most 4095; above that, the addition panics (pack asserts the bound)
\* and yields no timestamp.
C10_AddCarries ==
    ts_op = "add" =>
        IF SumHours <= HOURS_VAL_MAX
        THEN CarriedSum(ts_r[1])
        ELSE ts_r[1] = PANIC

\* 58:58:57-9 + 2:03:04-9 = 61:02:02-8
C10_Witness ==
    /\ ts_op = "add"
    /\ ts_a = parse(<<"#", "5", "8", ":", "5", "8", ":", "5", "7", "-", "9", "#">>)[1]
    /\ ts_b = parse(<<"#", "2", ":", "0", "3", ":", "0", "4", "-", "9", "#">>)[1]
    /\ ts_r = parse(<<"#", "6", "1", ":", "0", "2", ":", "0", "2", "-", "8", "#">>)

----------------------------------------------------------------------------
(* Properties of the merge *)

\* the lines of the document at a position of the input
Doc(i) == LinesOf[input[i]]

\* the last line of a document that has lines
LastLineOf(i) == Doc(i)[Len(Doc(i))]

\* the iteration for the document at position i is over
Merged(i) == i < transcripts

\* what the step for position i wrote (step Len(input) + 1: after the loop)
StepWrites(i) == SelectSeq(to, LAMBDA w : w.step = i)

\* the offsets at which text has a timestamp #H{1,4}:M{1,2}:S{1,2}-D#
MatchOffsets(text) ==
    { at \in 0..(Len(text) - 1) :
        \E w \in Widths : MatchesAt(text, at, w[1], w[2], w[3]) }

\* the tenths of the timestamp of text at a matching offset
TenthsAt(text, at) ==
    MatchedTenths(text, at,
        CHOOSE w \in Widths : MatchesAt(text, at, w[1], w[2], w[3]))

\* the hours, minutes, seconds and subseconds of an elapsed time
OfTenths(n) == MkTs(n \div 36000, 2, (n \div 600) % 60, 2, (n \div 10) % 60, 2, n % 10)

\* the end-time of each file in tenths: round_up of the last timestamp that
\* occurs anywhere in it
EndTenths ==
    [f \in 1..Len(Files) |->
        LET last == CHOOSE at \in MatchOffsets(Files[f]) :
                        \A other \in MatchOffsets(Files[f]) : other <= at
        IN  Tenths(round_up(OfTenths(TenthsAt(Files[f], last))))]

RECURSIVE ShiftTenths(_)
\* the sum of the end-times of the documents before position i
ShiftTenths(i) ==
    IF i <= 1 THEN 0 ELSE ShiftTenths(i - 1) + EndTenths[input[i - 1]]

RECURSIVE RecordedShiftTenths(_)
\* the sum of the end-times recorded at load time for the documents before
\* position i
RecordedShiftTenths(i) ==
    IF i <= 1 THEN 0
    ELSE RecordedShiftTenths(i - 1)
            + Tenths(Loaded[input[i - 1]].interview_end_time)

\* both lines are utterances of the same speaker (ids trimmed, compared
\* byte by byte)
SameSpeaker(last_line, first_line) ==
    /\ last_line.kind = "Utterance"
    /\ first_line.kind = "Utterance"
    /\ trim(last_line.speaker) = trim(first_line.speaker)

\* the step for position i has a previous last line and a first line
Boundary(i) ==
    /\ i \in 2..Len(input)
    /\ Merged(i)
    /\ Doc(i - 1) # <<>>
    /\ Doc(i) # <<>>

\* the line that splices last_line under the shift by and the speech of
\* first_line under the shift extra_by, every timestamp shifted
SplicedLine(last_line, by, first_line, extra_by) ==
    LINE_PREAMBLE \o last_line.speaker_before \o last_line.speaker
        \o last_line.speaker_after
        \o Shifted(trim(last_line.speech), 0, by)
        \o <<" ">>
        \o Shifted(trim(first_line.speech), 0, extra_by)
        \o last_line.speech_after \o LINE_EPILOGUE \o CRLF

\* C1: whenever the last line of D(i-1) and the first line of Di are both
\* utterances of the same speaker, the step for Di emits exactly one line for
\* the pair: D(i-1)'s speaker label once, D(i-1)'s speech with its timestamps
\* shifted by D(i-1)'s shift, one separating space, Di's speech with its
\* timestamps shifted by Di's shift; Di's speaker label is not emitted.
C1_SplicedLine ==
    \A i \in 2..Len(input) :
        (Boundary(i) /\ SameSpeaker(LastLineOf(i - 1), Doc(i)[1])) =>
            LET first == StepWrites(i)[1]
            IN  /\ first.call = "spliced"
                /\ \A k \in 2..Len(StepWrites(i)) :
                        StepWrites(i)[k].call = "line"
                /\ Tenths(first.by) = RecordedShiftTenths(i - 1)
                /\ Tenths(first.extra_by) = RecordedShiftTenths(i)
                /\ first.out = SplicedLine(LastLineOf(i - 1), first.by,
                                           Doc(i)[1], first.extra_by)

\* the calls that write a line
LineCalls == {"first_line", "line", "last_line", "spliced"}

\* the position of the document whose line a write emits
DocOf(w) == IF w.call \in {"last_line", "spliced"} THEN w.step - 1 ELSE w.step

\* the set of the elements of a sequence
Range(seq) == { seq[k] : k \in 1..Len(seq) }

\* C2: every line of D1 is written under the shift zero and every line of Di,
\* i > 1, its withheld last line included, under the sum of the end-times of
\* D1..D(i-1), the end-time of a document being round_up of the last
\* timestamp in its file; the spliced speech of Di is under Di's shift.
C2_ShiftIsSumOfEndTimes ==
    \A k \in 1..Len(to) :
        to[k].call \in LineCalls =>
            /\ DocOf(to[k]) \in 1..Len(input)
            /\ to[k].line \in Range(Doc(DocOf(to[k])))
            /\ Tenths(to[k].by) = ShiftTenths(DocOf(to[k]))
            /\ DocOf(to[k]) = 1 => to[k].by = zero
            /\ to[k].call = "spliced" =>
                    /\ to[k].extra = Doc(to[k].step)[1]
                    /\ Tenths(to[k].extra_by) = ShiftTenths(to[k].step)

\* three documents are merged; the last line of the third is written after
\* the loop under the sum of two end-times
C2_Witness ==
    /\ pc = "done"
    /\ Len(input) = 3
    /\ ShiftTenths(2) > 0
    /\ ShiftTenths(3) > ShiftTenths(2)
    /\ \E k \in 1..Len(to) :
            /\ to[k].call = "last_line"
            /\ to[k].step = 4
            /\ Tenths(to[k].by) = ShiftTenths(3)

\* the timestamps of text do not decrease in textual order
NonDecreasing(text) ==
    \A at \in MatchOffsets(text) :
        \A later \in MatchOffsets(text) :
            at < later => TenthsAt(text, at) <= TenthsAt(text, later)

\* the files whose timestamps do not decrease
Ordered == { f \in 1..Len(Files) : NonDecreasing(Files[f]) }

\* C3: if in every input document the timestamps do not decrease in textual
\* order, the timestamps of the merged output do not decrease in textual
\* order either.
C3_OutputNonDecreasing ==
    (pc = "done" /\ \A i \in 1..Len(input) : input[i] \in Ordered) =>
        NonDecreasing(bytes_of(to))

\* C4: when the last line of D(i-1) and the first line of Di are not both
\* utterances of the same speaker, the step for Di first emits D(i-1)'s last
\* line as a line of its own under D(i-1)'s shift and then Di's first line as
\* a line of its own under Di's shift; the step for D1, which has no
\* previous document, emits D1's first line only.
C4_BoundaryLinesSeparate ==
    /\ \A i \in 2..Len(input) :
        (Boundary(i) /\ ~SameSpeaker(LastLineOf(i - 1), Doc(i)[1])) =>
            /\ Len(StepWrites(i)) >= 2
            /\ StepWrites(i)[1].call = "last_line"
            /\ StepWrites(i)[1].line = LastLineOf(i - 1)
            /\ Tenths(StepWrites(i)[1].by) = RecordedShiftTenths(i - 1)
            /\ StepWrites(i)[1].out
                    = write_adjusted(LastLineOf(i - 1), StepWrites(i)[1].by).out
            /\ StepWrites(i)[2].call = "first_line"
            /\ StepWrites(i)[2].line = Doc(i)[1]
            /\ Tenths(StepWrites(i)[2].by) = RecordedShiftTenths(i)
            /\ StepWrites(i)[2].out
                    = write_adjusted(Doc(i)[1], StepWrites(i)[2].by).out
            /\ \A k \in 3..Len(StepWrites(i)) : StepWrites(i)[k].call = "line"
    /\ (Len(input) >= 1 /\ Merged(1) /\ Doc(1) # <<>>) =>
            /\ StepWrites(1)[1].call = "first_line"
            /\ StepWrites(1)[1].line = Doc(1)[1]
            /\ StepWrites(1)[1].by = zero
            /\ \A k \in 2..Len(StepWrites(1)) : StepWrites(1)[k].call = "line"

\* a document that ends with I is followed by one that begins with Z (both
\* lines are written), and one that ends with Z by one that begins with a
\* paragraph
C4_Witness ==
    /\ pc = "done"
    /\ Len(input) = 3
    /\ Boundary(2) /\ Boundary(3)
    /\ LastLineOf(1).kind = "Utterance" /\ Doc(2)[1].kind = "Utterance"
    /\ ~SameSpeaker(LastLineOf(1), Doc(2)[1])
    /\ Doc(3)[1].kind = "Paragraph"
    /\ StepWrites(2)[1].call = "last_line"
    /\ StepWrites(2)[2].call = "first_line"
    /\ StepWrites(3)[2].call = "first_line"
    /\ Tenths(StepWrites(3)[2].by) > Tenths(StepWrites(3)[1].by)

\* the preamble of a file: its bytes up to and including \jexpand CRLF
PreambleOf(f) ==
    Slice(Files[f], 0,
          find(Files[f], PREAMBLE_END_PATTERN)[1] + Len(PREAMBLE_END_PATTERN))

\* C5: for a non-empty sequence D1..Dn, D1's preamble is the first thing
\* written, no other preamble is ever written, the epilogue is written
\* exactly once, as the last thing and after the last line of the last
\* document, and the finished output starts with D1's preamble and ends with
\* the epilogue.
C5_PreambleFirstEpilogueLast ==
    /\ \A k \in 1..Len(to) :
        /\ to[k].call = "preamble" <=> k = 1
        /\ to[k].call = "preamble" => to[k].out = PreambleOf(input[1])
        /\ to[k].call = "epilogue" =>
                /\ pc = "done"
                /\ k = Len(to)
                /\ to[k].out = EPILOGUE
                /\ Doc(Len(input)) # <<>> =>
                        /\ to[k - 1].call = "last_line"
                        /\ to[k - 1].line = LastLineOf(Len(input))
    /\ (pc = "done" /\ input # <<>>) =>
            /\ to[1].call = "preamble"
            /\ to[Len(to)].call = "epilogue"
            /\ starts_with(bytes_of(to), PreambleOf(input[1]))
            /\ ends_with(bytes_of(to), EPILOGUE)
            /\ \A f \in 1..Len(Files) :
                    f # input[1] => find(bytes_of(to), PreambleOf(f)) = None

\* three different documents are merged, the last of them has lines
C5_Witness ==
    /\ pc = "done"
    /\ Len(input) = 3
    /\ input[1] # input[2] /\ input[1] # input[3]
    /\ Doc(3) # <<>>
    /\ to[1].out = PreambleOf(input[1])
    /\ to[Len(to)].out = EPILOGUE

\* C6: merging the empty sequence writes nothing, neither preamble nor
\* epilogue, and returns Ok.
C6_EmptySequenceWritesNothing ==
    input = <<>> => (to = <<>> /\ pc \in {"start", "done"})

\* the merge of the empty sequence has returned
C6_Witness == input = <<>> /\ pc = "done" /\ bytes_of(to) = <<>>

\* C7: when Di has no lines, the step for Di emits only the last line of
\* D(i-1), if there is one, under D(i-1)'s shift, and nothing of Di; the
\* merge goes on with D(i+1), whose shift includes Di's end-time.
C7_EmptyDocument ==
    \A i \in 1..Len(input) :
        (Merged(i) /\ Doc(i) = <<>>) =>
            /\ IF i > 1 /\ Doc(i - 1) # <<>>
               THEN /\ Len(StepWrites(i)) = 1
                    /\ StepWrites(i)[1].call = "last_line"
                    /\ StepWrites(i)[1].line = LastLineOf(i - 1)
                    /\ Tenths(StepWrites(i)[1].by) = RecordedShiftTenths(i - 1)
               ELSE StepWrites(i) = <<>>
            /\ last_transcript >= i
            /\ (i < Len(input) /\ Merged(i + 1)) =>
                    \A k \in 1..Len(StepWrites(i + 1)) :
                        /\ StepWrites(i + 1)[k].call \in {"first_line", "line"}
                        /\ Tenths(StepWrites(i + 1)[k].by)
                                = RecordedShiftTenths(i) + Tenths(Loaded[input[i]].interview_end_time)
            /\ (i = Len(input) /\ pc = "done") =>
                    StepWrites(i + 1)[1].call = "epilogue"

\* a document without lines stands between two that have lines
C7_Witness ==
    /\ pc = "done"
    /\ Len(input) = 3
    /\ Doc(1) # <<>> /\ Doc(2) = <<>> /\ Doc(3) # <<>>
    /\ Len(StepWrites(2)) = 1
    /\ StepWrites(3)[1].call = "first_line"
    /\ Tenths(StepWrites(3)[1].by) = RecordedShiftTenths(2) + Tenths(Loaded[input[2]].interview_end_time)
    /\ Tenths(Loaded[input[2]].interview_end_time) > 0

----------------------------------------------------------------------------
(* Properties of timestamp arithmetic *)

\* C11 as stated: timestamp addition has no upper bound on hours: for every
\* pair of valid timestamps a and b, a + b produces a result, also when
\* a.hours + b.hours plus the minute carry exceeds 4095.
C11_AddUnbounded ==
    ts_op = "add" => ts_r[1] # PANIC

\* C11, amended: a + b produces a result exactly when a.hours + b.hours plus
\* the minute carry is at most 4095, the largest hours a Timestamp holds;
\* above that the addition panics.
C11_AddBounded ==
    ts_op = "add" => (ts_r[1] # PANIC <=> SumHours <= HOURS_VAL_MAX)

\* 4095:58:57-9 + 00:03:04-9: the minute carry takes the hours to 4096
C11_Witness ==
    /\ ts_op = "add"
    /\ ts_a.hours = HOURS_VAL_MAX /\ ts_b.hours = 0
    /\ SumMinutes >= 60
    /\ SumHours = HOURS_VAL_MAX + 1
    /\ ts_r = Some(PANIC)

\* the elapsed time, in tenths of a second, of round_up(t) as specified: t
\* itself when everything below its most significant non-zero unit is zero,
\* else the next whole hour, the next whole minute (a carry past 59 gives an
\* hour), one minute for seconds only, and zero otherwise
RoundedUpTenths(t) ==
    IF t.hours > 0
    THEN IF t.minutes = 0 /\ t.seconds = 0 /\ t.subsecs = 0
         THEN Tenths(t)
         ELSE (t.hours + 1) * 36000
    ELSE IF t.minutes > 0
    THEN IF t.seconds = 0 /\ t.subsecs = 0
         THEN Tenths(t)
         ELSE (t.minutes + 1) * 600
    ELSE IF t.seconds > 0 THEN 600
    ELSE 0

\* C12: for every valid timestamp t, round_up(t) produces a result: t itself
\* if hours > 0 and minutes, seconds and subseconds are zero, otherwise the
\* next whole hour if hours > 0; else, when minutes > 0, t itself if seconds
\* and subseconds are zero and otherwise the next whole minute, carrying
\* past 59; else 00:01:00-0 when seconds > 0; else 00:00:00-0.
C12_RoundUpAsSpecified ==
    ts_op = "round_up" =>
        /\ ts_r[1] # PANIC
        /\ Tenths(ts_r[1]) = RoundedUpTenths(ts_a)
        /\ Tenths(ts_a) = RoundedUpTenths(ts_a) => ts_r[1] = ts_a

\* a's (hours, minutes, seconds, subseconds) is lexically smaller than b's
LexLess(a, b) ==
    \/ a.hours < b.hours
    \/ a.hours = b.hours /\ a.minutes < b.minutes
    \/ a.hours = b.hours /\ a.minutes = b.minutes /\ a.seconds < b.seconds
    \/ /\ a.hours = b.hours /\ a.minutes = b.minutes
       /\ a.seconds = b.seconds /\ a.subsecs < b.subsecs

\* C13: round_up is a conservative estimate: for every valid timestamp t,
\* round_up(t) is greater than or equal to t when compared on (hours,
\* minutes, seconds, subseconds).
C13_RoundUpNotSmaller ==
    ts_op = "round_up" =>
        /\ ts_r[1] # PANIC
        /\ ~LexLess(ts_r[1], ts_a)

\* the bounds of the components and of the digit widths of a Timestamp
InBounds(t) ==
    /\ t.hours \in 0..4095
    /\ t.minutes \in 0..59
    /\ t.seconds \in 0..59
    /\ t.subsecs \in 0..9
    /\ t.hours_len \in 1..4
    /\ t.minutes_len \in 1..2
    /\ t.seconds_len \in 1..2

\* C14: every Timestamp value that exists after any sequence of parse, add
\* and round_up satisfies hours <= 4095, minutes <= 59, seconds <= 59,
\* subseconds <= 9, hour digit width in 1..4 and minute and second digit
\* widths in 1..2 (an operation that panics leaves no value).
C14_ValuesInBounds ==
    /\ InBounds(ts_a)
    /\ InBounds(ts_b)
    /\ (ts_op \in {"add", "round_up"} /\ ts_r[1] # PANIC) => InBounds(ts_r[1])
    /\ (ts_op = "reparse" /\ ts_r # None) =>
            (ts_r[1] # PANIC /\ InBounds(ts_r[1]))

\* parsed operands are added to 4095 hours, the sum is formatted and parsed
\* again: the value at the upper bound of the hours
C14_Witness ==
    /\ ts_op = "reparse"
    /\ ts_a.hours = HOURS_VAL_MAX /\ ts_a.minutes = 59
    /\ ts_b.hours > 0
    /\ ts_r # None
    /\ ts_r[1].hours = HOURS_VAL_MAX /\ ts_r[1].hours_len = HOURS_LEN_MAX

----------------------------------------------------------------------------
(* Timestamp::parse and Timestamp::len on their own *)

\* the digits between the separators of the texts parsed: none, one or two
\* digits, leading zeros, the largest values and the ones above them
ParseHours ==
    { <<>>,
      <<"1">>,
      <<"0", "1">>,
      <<"9", "9", "9">>,
      <<"4", "0", "9", "5">>,
      <<"4", "0", "9", "6">>,
      <<"0", "0", "0", "0", "1">> }
ParseMinutes ==
    { <<>>,
      <<"2">>,
      <<"0", "2">>,
      <<"5", "9">>,
      <<"6", "0">>,
      <<"0", "0", "2">> }
ParseSeconds ==
    { <<>>,
      <<"3">>,
      <<"0", "3">>,
      <<"5", "9">>,
      <<"6", "0">>,
      <<"0", "0", "3">> }
ParseSubsecs ==
    { <<>>,
      <<"4">>,
      <<"0", "0">>,
      <<"1", "0">> }

\* texts with a wrong or missing separator, and texts with bytes after the
\* timestamp
ParseOthers ==
    { <<>>,
      <<"#", "0", "0", ":", "0", "6", "0", "0", "-", "0", "#">>,
      <<"#", "0", "0", ":", "0", "6", ":", "0", "0", ".", "0", "#">>,
      <<"0", "0", ":", "0", "6", ":", "0", "0", "-", "0", "#">>,
      <<"#", "0", "0", ":", "0", "6", ":", "0", "0", "-", "0">>,
      <<"#", "0", "0", ":", "0", "6", ":", "0", "0", "-", "0", "#", " ">>,
      <<"#", "1", ":", "2", ":", "3", "-", "4", "#", "5", ":", "6", ":", "7", "-", "8", "#">>,
      <<"#", "3", "8", ":", "4", "2", ":", "1", "7", "-", "9", "#">> }

ParseTexts ==
    { <<"#">> \o h \o <<":">> \o m \o <<":">> \o s \o <<"-">> \o ss \o <<"#">> :
        h \in ParseHours, m \in ParseMinutes,
        s \in ParseSeconds, ss \in ParseSubsecs } \cup ParseOthers

InitParse ==
    /\ ps_text \in ParseTexts
    /\ ps_r = None
    /\ ps_pc = "call"
    /\ ps_len = 0
    /\ MergeIdle /\ TimestampIdle /\ RewriteIdle /\ LinesIdle /\ LoadIdle

\* Timestamp::parse(timestamp)
Parse ==
    /\ ps_pc = "call"
    /\ ps_r' = parse(ps_text)
    /\ ps_pc' = "ret"
    /\ UNCHANGED <<ps_text, ps_len, merge_vars, ts_vars, rw_vars, ln_vars, ld_vars>>

\* len() of the timestamp that parse returned
Len_of_parsed ==
    /\ ps_pc = "ret"
    /\ ps_r # None
    /\ ps_r[1] # PANIC
    /\ ps_len' = len(ps_r[1])
    /\ ps_pc' = "len"
    /\ UNCHANGED <<ps_text, ps_r, merge_vars, ts_vars, rw_vars, ln_vars, ld_vars>>

NextParse == Parse \/ Len_of_parsed

SpecParse == InitParse /\ [][NextParse]_vars

----------------------------------------------------------------------------
(* Properties of Timestamp::parse *)

\* text begins with '#', hl hour digits of a value <= 4095, ':', 1-2 minute
\* digits <= 59, ':', 1-2 second digits <= 59, '-', one subsecond digit, '#'
FollowsPattern(text) ==
    \E hl \in 1..Len(text) : \E ml \in 1..2 : \E sl \in 1..2 :
        MatchesAt(text, 0, hl, ml, sl)

\* C15: for every text that deviates from the pattern (a wrong or missing
\* separator, missing digits, hours > 4095, minutes or seconds > 59, more
\* than two minute or second digits, more than one subsecond digit), parse
\* returns the 'not a timestamp' error: it neither returns a Timestamp nor
\* aborts.
C15_DeviationsRejected ==
    (ps_pc \in {"ret", "len"} /\ ~FollowsPattern(ps_text)) => ps_r = None

\* C16: for every text accepted by parse, the Timestamp retains the digit
\* widths of the text, so that len() is the number of bytes of the matched
\* text (hour digits + minute digits + second digits + 6), while hours,
\* minutes, seconds and subseconds are the values of the digits whatever the
\* widths.
C16_WidthsRetained ==
    ps_pc = "len" =>
        \E w \in Widths :
            /\ MatchesAt(ps_text, 0, w[1], w[2], w[3])
            /\ ps_r[1].hours_len = w[1]
            /\ ps_r[1].minutes_len = w[2]
            /\ ps_r[1].seconds_len = w[3]
            /\ ps_len = w[1] + w[2] + w[3] + 6
            /\ ps_r[1].hours = NumberOf(ps_text, 1, w[1])
            /\ ps_r[1].minutes = NumberOf(ps_text, 2 + w[1], w[2])
            /\ ps_r[1].seconds = NumberOf(ps_text, 3 + w[1] + w[2], w[3])
            /\ ps_r[1].subsecs = NumberOf(ps_text, 4 + w[1] + w[2] + w[3], 1)

\* #1:2:3-4# is parsed: 9 bytes, and the components of #01:02:03-4#
C16_Witness ==
    /\ ps_pc = "len"
    /\ ps_text = <<"#", "1", ":", "2", ":", "3", "-", "4", "#">>
    /\ ps_len = 9
    /\ ps_r[1] # parse(<<"#", "0", "1", ":", "0", "2", ":", "0", "3", "-", "4", "#">>)[1]
    /\ canonicalize_len(ps_r[1]) = parse(<<"#", "0", "1", ":", "0", "2", ":", "0", "3", "-", "4", "#">>)[1]

----------------------------------------------------------------------------
(* Properties of the ordering of Timestamp *)

\* C17: ordering and equality of Timestamp values are total and lexical on
\* (hours, minutes, seconds, subseconds) only: a < b exactly when the tuple
\* of a is lexically smaller than the tuple of b, and a == b exactly when the
\* tuples are equal, regardless of the digit widths the two values carry.
C17_OrderingOnValues ==
    ts_op = "cmp" =>
        /\ ts_r[1].lt <=> LexLess(ts_a, ts_b)
        /\ ts_r[1].eq <=> (~LexLess(ts_a, ts_b) /\ ~LexLess(ts_b, ts_a))

----------------------------------------------------------------------------
(* The tokenizer and the line classifier on their own, one line at a time *)

\* beginnings of lines: the wrapper as f4transkript writes it, with other
\* parameter values and delimiters, and with a triple changed or left out;
\* "xC3", "xA4" are the two bytes of one character
LineWrappers ==
    { <<"{", "\\", "f", "0", " ", "\\", "f", "s", "2", "4", " ", "\\", "u", "l", "0", " ", "\\", "b", "0", " ", "\\", "i", "0", " ", "\\", "c", "f", "0", " ">>,
      <<"{", "\\", "f", "1", " ", "\\", "f", "s", "2", "4", " ", "\\", "u", "l", "0", " ", "\\", "b", "0", " ", "\\", "i", "0", " ", "\\", "c", "f", "0", " ">>,
      <<"{", "\\", "f", "-", "1", " ", "\\", "f", "s", "2", "4", "0", " ", "\\", "u", "l", "-", " ", "\\", "b", "0", " ", "\\", "i", "0", " ", "\\", "c", "f", "0", " ">>,
      <<"{", "\\", "f", "0", ",", "\\", "f", "s", "2", "4", ";", "\\", "u", "l", "0", "x", "\\", "b", "0", " ", "\\", "i", "0", " ", "\\", "c", "f", "0", ":">>,
      <<"{", "\\", "g", "0", " ", "\\", "f", "s", "2", "4", " ", "\\", "u", "l", "0", " ", "\\", "b", "0", " ", "\\", "i", "0", " ", "\\", "c", "f", "0", " ">>,
      <<"{", "\\", "f", "s", "2", "4", " ", "\\", "f", "0", " ", "\\", "u", "l", "0", " ", "\\", "b", "0", " ", "\\", "i", "0", " ", "\\", "c", "f", "0", " ">>,
      <<"{", "\\", "f", " ", "\\", "f", "s", "2", "4", " ", "\\", "u", "l", "0", " ", "\\", "b", "0", " ", "\\", "i", "0", " ", "\\", "c", "f", "0", " ">>,
      <<"\\", "f", "0", " ", "\\", "f", "s", "2", "4", " ", "\\", "u", "l", "0", " ", "\\", "b", "0", " ", "\\", "i", "0", " ", "\\", "c", "f", "0", " ">>,
      <<"{", "\\", "f", "0", " ", "\\", "f", "s", "2", "4", " ", "\\", "u", "l", "0", " ", "\\", "b", "0", " ", "\\", "i", "0", " ", "\\", "c", "f", "0">>,
      <<"{", "\\", "f", "0", " ", "\\", "f", "s", "2", "4", " ", "\\", "u", "l", "0", " ", "\\", "b", "0", " ", "\\", "i", "0", " ">>,
      <<"{", "\\", "f", "0", " ", " ", "\\", "f", "s", "2", "4", " ", "\\", "u", "l", "0", " ", "\\", "b", "0", " ", "\\", "i", "0", " ", "\\", "c", "f", "0", " ">>,
      <<"{", "\\", "f", "0", " ", "\\", "f", "s", "2", "4", " ", "\\", "u", "l", "0", " ", "\\", "b", "0", " ", "\\", "i", "0", " ", "\\", "c", "f", "0", "xC3", "xA4">> }

\* inner contents: none, a speaker turn in one text run, a speaker turn with
\* nested groups and an escape sequence, control symbols and a backslash at
\* the end, a speaker without speech, the colon in a text run of its own, a
\* colon inside the first text run, the colon at the start of the speech
LineContents ==
    { <<>>,
      <<"I", ":", " ", "j", "a", " ">>,
      <<"Z", ":", " ", "M", "h", "m", ",", " ", "g", "e", "n", "a", "u", ".", " ", "#", "0", "0", ":", "0", "0", ":", "1", "9", "-", "0", "#">>,
      <<"{", "\\", "f", "1", " ", "\\", "f", "s", "2", "4", " ", "\\", "u", "l", "0", " ", "\\", "b", "0", " ", "\\", "i", "0", " ", "\\", "c", "f", "0", " ", "Z", ":", "}", "{", "\\", "f", "0", " ", "\\", "f", "s", "2", "4", " ", "\\", "u", "l", "0", " ", "\\", "b", "0", " ", "\\", "i", "0", " ", "\\", "c", "f", "0", " ", "Z", "u", "r", "\\", "'", "f", "c", "c", "k", " ", "z", "u", " ", "d", "e", "n", " ", "M", "e", "t", "h", "o", "d", "e", "n", " ", "#", "0", "0", ":", "0", "0", ":", "1", "7", "-", "5", "#", "}">>,
      <<"a", "\\", "~", "b", "}", "'", "c", "\\", "-", "1", "\\">>,
      <<"Z", ":">>,
      <<"Z", "}", "{", ":", "}", "{", "j", "a", " ", "#", "0", "0", ":", "0", "0", ":", "0", "3", "-", "0", "#", "}">>,
      <<"I", ":", "I", "I", "}", "{", ":", " ", "o", "k">>,
      <<"{", "\\", "f", "0", " ", "\\", "f", "s", "2", "4", " ", "\\", "u", "l", "0", " ", "\\", "b", "0", " ", "\\", "i", "0", " ", "\\", "c", "f", "0", " ", "Z", "}", "{", "\\", "f", "0", " ", "\\", "f", "s", "2", "4", " ", "\\", "u", "l", "0", " ", "\\", "b", "0", " ", "\\", "i", "0", " ", "\\", "c", "f", "0", " ", ":", " ", "Z", "u", "r", "\\", "'", "f", "c", "c", "k", " ", "z", "u", " ", "d", "e", "n", " ", "M", "e", "t", "h", "o", "d", "e", "n", " ", "#", "0", "0", ":", "0", "0", ":", "1", "7", "-", "5", "#", "}">> }

\* ends of lines: the closing marker, and what is not the closing marker
LineEndings ==
    { <<"\\", "p", "a", "r", "}">>,
      <<"\\", "p", "a", "r">>,
      <<"\\", "p", "a", "r", "}", " ">>,
      <<>> }

\* lines that are no paragraphs at all
LooseLines ==
    { <<"\\">>,
      <<"\\", "'">>,
      <<"{", "'", "}">>,
      <<"a", "b", "}", "'", "c">>,
      <<"x", "{", "'", "y", " ", "#", "0", "0", ":", "0", "0", ":", "0", "3", "-", "0", "#">>,
      <<"\\", "b", "-">>,
      <<"\\", "~", "xC3", "xA4", ":", " ", "x">> }

LineTexts ==
    { w \o c \o e : w \in LineWrappers, c \in LineContents, e \in LineEndings }
        \cup LooseLines

InitLines ==
    /\ ln_line \in LineTexts
    /\ ln_tokens = <<>>
    /\ ln_class = None
    /\ ln_by = zero
    /\ ln_out = None
    /\ ln_pc = "iter"
    /\ MergeIdle /\ TimestampIdle /\ RewriteIdle /\ ParseIdle /\ LoadIdle

\* Rtf::from(line), and the fields front_pos and front_last_consumed of the
\* iterator after the tokens yielded so far
front_pos == IF ln_tokens = <<>> THEN 0 ELSE ln_tokens[Len(ln_tokens)].end
front_last_consumed ==
    IF ln_tokens = <<>> THEN "None" ELSE ln_tokens[Len(ln_tokens)].kind

\* Rtf::next yields Some(token)
Rtf_next ==
    /\ ln_pc = "iter"
    /\ \E token \in {Token_parse(ln_line, front_pos, Len(ln_line),
                                  front_last_consumed)} :
            /\ token # None
            /\ ln_tokens' = Append(ln_tokens, token[1])
    /\ UNCHANGED <<ln_line, ln_class, ln_by, ln_out, ln_pc>>
    /\ UNCHANGED <<merge_vars, ts_vars, rw_vars, ps_vars, ld_vars>>

\* Rtf::next yields None: the iterator is exhausted
Rtf_next_None ==
    /\ ln_pc = "iter"
    /\ Token_parse(ln_line, front_pos, Len(ln_line), front_last_consumed) = None
    /\ ln_pc' = "end"
    /\ UNCHANGED <<ln_line, ln_tokens, ln_class, ln_by, ln_out>>
    /\ UNCHANGED <<merge_vars, ts_vars, rw_vars, ps_vars, ld_vars>>

\* Lines::parse_line(line)
Lines_parse_line ==
    /\ ln_pc = "end"
    /\ ln_class' = Some(parse_line(ln_line))
    /\ ln_pc' = "classified"
    /\ UNCHANGED <<ln_line, ln_tokens, ln_by, ln_out>>
    /\ UNCHANGED <<merge_vars, ts_vars, rw_vars, ps_vars, ld_vars>>

\* the shifts lines are written under
LineShifts == {zero, new(0, 1, 0, 0)}

\* Line::write_adjusted(to, adjust_by) of the classified line
Line_write_adjusted ==
    /\ ln_pc = "classified"
    /\ ln_class[1].kind # "panic"
    /\ \E adjust_by \in LineShifts :
            /\ ln_by' = adjust_by
            /\ ln_out' = Some(write_adjusted(ln_class[1], adjust_by))
    /\ ln_pc' = "written"
    /\ UNCHANGED <<ln_line, ln_tokens, ln_class>>
    /\ UNCHANGED <<merge_vars, ts_vars, rw_vars, ps_vars, ld_vars>>

NextLines ==
    Rtf_next \/ Rtf_next_None \/ Lines_parse_line \/ Line_write_adjusted

SpecLines == InitLines /\ [][NextLines]_vars

----------------------------------------------------------------------------
(* Loading and merging the files found: src/src/merge.rs *)

\* a file in which the content-start marker does not occur
NO_MARKER ==
    <<"{", "N", " ", "#", "0", "0", ":", "0", "0", ":", "0", "7", "-", "0", "#", "\r", "\n">>
        \o LINE_PREAMBLE
        \o <<"Z", ":", " ", "a", " ", "#", "0", "0", ":", "0", "0", ":", "0", "8", "-", "0", "#">>
        \o LINE_EPILOGUE
        \o EPILOGUE

\* a file that does not end with the closing literal
NO_EPILOGUE ==
    <<"{", "O">>
        \o PREAMBLE_END_PATTERN
        \o LINE_PREAMBLE
        \o <<"Z", ":", " ", "a", " ", "#", "0", "0", ":", "0", "0", ":", "0", "8", "-", "0", "#">>
        \o LINE_EPILOGUE
        \o <<"}">>

\* a file with neither the marker nor the closing literal
NEITHER ==
    <<"{", "P", " ", "#", "0", "0", ":", "0", "0", ":", "0", "7", "-", "0", "#", "}">>

\* a file in which no timestamp occurs
NO_TIMESTAMP ==
    <<"{", "Q">>
        \o PREAMBLE_END_PATTERN
        \o LINE_PREAMBLE
        \o <<"Z", ":", " ", "a">>
        \o LINE_EPILOGUE
        \o EPILOGUE

\* a file whose marker ends inside the closing literal
MARKER_IN_EPILOGUE ==
    <<"{", "R", " ", "#", "0", "0", ":", "0", "0", ":", "0", "7", "-", "0", "#">>
        \o PREAMBLE_END_PATTERN
        \o <<"}">>

\* a file whose last timestamp lies in the last minute of an hour
MINUTE_59 ==
    <<"{", "S">>
        \o PREAMBLE_END_PATTERN
        \o LINE_PREAMBLE
        \o <<"Z", ":", " ", "a", " ", "#", "0", "0", ":", "5", "9", ":", "1", "0", "-", "0", "#">>
        \o LINE_EPILOGUE
        \o EPILOGUE

\* a file whose only timestamp has three hour digits
LONG_TIMESTAMP ==
    <<"{", "T">>
        \o PREAMBLE_END_PATTERN
        \o LINE_PREAMBLE
        \o <<"Z", ":", " ", "a", " ", "#", "1", "0", "0", ":", "0", "0", ":", "0", "0", "-", "0", "#">>
        \o LINE_EPILOGUE
        \o EPILOGUE

\* the texts of the files on disk
DiskFiles ==
    <<FILE_A, FILE_D, NO_MARKER, NO_EPILOGUE, NEITHER, NO_TIMESTAMP,
      MARKER_IN_EPILOGUE, MINUTE_59, LONG_TIMESTAMP>>

\* Transcript::from_file of each file on disk: read_to_string(path)?.try_into()
from_file == [f \in 1..Len(DiskFiles) |-> Transcript_try_from(DiskFiles[f])]

\* at most this many paths are collected
MaxPaths == 3

RECURSIVE PathsUpTo(_)
\* the sequences of at most n paths
PathsUpTo(n) ==
    IF n = 0 THEN {<<>>}
    ELSE the({ shorter \cup { Append(p, f) :
                                 p \in { q \in shorter : Len(q) = n - 1 },
                                 f \in 1..Len(DiskFiles) }
             : shorter \in {PathsUpTo(n - 1)} })

\* merge is called: collect_transcripts has returned the paths, no path is
\* loaded yet and the output file does not exist
InitLoad ==
    /\ ld_paths \in PathsUpTo(MaxPaths)
    /\ ld_next = 1
    /\ ld_last = None
    /\ ld_merged = <<>>
    /\ ld_file = "absent"
    /\ ld_pc = "peek"
    /\ MergeIdle /\ TimestampIdle /\ RewriteIdle /\ ParseIdle /\ LinesIdle

\* the closure of filter_map on the next path, called by peek() in merge or
\* by the for loop of write_merged_transcript: Ok(transcript) is yielded,
\* Err(err) is logged and skipped; a panic of try_from unwinds through merge
filter_map_next ==
    /\ ld_pc \in {"peek", "for"}
    /\ ld_next <= Len(ld_paths)
    /\ \E transcript \in {from_file[ld_paths[ld_next]]} :
            /\ ld_last' = Some(transcript)
            /\ ld_next' = ld_next + 1
            /\ IF transcript.result = "Panic"
               THEN /\ ld_pc' = "panic"
                    /\ UNCHANGED ld_merged
               ELSE IF transcript.result = "Ok"
               THEN /\ ld_merged' = Append(ld_merged, ld_paths[ld_next])
                    /\ ld_pc' = IF ld_pc = "peek" THEN "peeked" ELSE "for"
               ELSE UNCHANGED <<ld_merged, ld_pc>>
    /\ UNCHANGED <<ld_paths, ld_file>>
    /\ UNCHANGED <<merge_vars, ts_vars, rw_vars, ps_vars, ln_vars>>

\* merge: transcripts.peek().is_none(), return Err(Error::NoTranscripts)
NoTranscripts ==
    /\ ld_pc = "peek"
    /\ ld_next > Len(ld_paths)
    /\ ld_pc' = "NoTranscripts"
    /\ UNCHANGED <<ld_paths, ld_next, ld_last, ld_merged, ld_file>>
    /\ UNCHANGED <<merge_vars, ts_vars, rw_vars, ps_vars, ln_vars>>

\* write_to_file up to the call of write_merged_transcript: File::create
write_to_file ==
    /\ ld_pc = "peeked"
    /\ ld_file' = "created"
    /\ ld_pc' = "for"
    /\ UNCHANGED <<ld_paths, ld_next, ld_last, ld_merged>>
    /\ UNCHANGED <<merge_vars, ts_vars, rw_vars, ps_vars, ln_vars>>

\* write_to_stdout up to the call of write_merged_transcript
write_to_stdout ==
    /\ ld_pc = "peeked"
    /\ ld_pc' = "for"
    /\ UNCHANGED <<ld_paths, ld_next, ld_last, ld_merged, ld_file>>
    /\ UNCHANGED <<merge_vars, ts_vars, rw_vars, ps_vars, ln_vars>>

\* the iterator is exhausted: write_merged_transcript writes the last line
\* and the epilogue to the sink, merge returns Ok(())
merge_Ok ==
    /\ ld_pc = "for"
    /\ ld_next > Len(ld_paths)
    /\ ld_file' = IF ld_file = "created" THEN "written" ELSE ld_file
    /\ ld_pc' = "Ok"
    /\ UNCHANGED <<ld_paths, ld_next, ld_last, ld_merged>>
    /\ UNCHANGED <<merge_vars, ts_vars, rw_vars, ps_vars, ln_vars>>

NextLoad ==
    filter_map_next \/ NoTranscripts \/ write_to_file \/ write_to_stdout
        \/ merge_Ok

SpecLoad == InitLoad /\ [][NextLoad]_vars

----------------------------------------------------------------------------
(* Properties of the tokenizer *)

\* C18: for every line the tokenizer terminates and never fails, and the
\* tokens it yields are non-empty, contiguous and non-overlapping slices that
\* cover the line exactly: the first token starts at offset 0, each token
\* starts where the previous one ended, no token reaches beyond the line
\* (so that there are at most as many tokens as bytes), and when the
\* iterator is exhausted the last token ends at the length of the line.
C18_TokensCoverLine ==
    /\ \A i \in 1..Len(ln_tokens) :
            /\ ln_tokens[i].start < ln_tokens[i].end
            /\ ln_tokens[i].end <= Len(ln_line)
            /\ ln_tokens[i].start = IF i = 1 THEN 0 ELSE ln_tokens[i - 1].end
    /\ Len(ln_tokens) <= Len(ln_line)
    /\ ln_pc # "iter" => front_pos = Len(ln_line)

\* the line with nested groups and an escape sequence is tokenized to its
\* end, the escape sequence inside one text token
C18_Witness ==
    /\ ln_pc = "end"
    /\ ln_line = <<"{", "\\", "f", "0", " ", "\\", "f", "s", "2", "4", " ", "\\", "u", "l", "0", " ", "\\", "b", "0", " ", "\\", "i", "0", " ", "\\", "c", "f", "0", " ", "{", "\\", "f", "1", " ", "\\", "f", "s", "2", "4", " ", "\\", "u", "l", "0", " ", "\\", "b", "0", " ", "\\", "i", "0", " ", "\\", "c", "f", "0", " ", "Z", ":", "}", "{", "\\", "f", "0", " ", "\\", "f", "s", "2", "4", " ", "\\", "u", "l", "0", " ", "\\", "b", "0", " ", "\\", "i", "0", " ", "\\", "c", "f", "0", " ", "Z", "u", "r", "\\", "'", "f", "c", "c", "k", " ", "z", "u", " ", "d", "e", "n", " ", "M", "e", "t", "h", "o", "d", "e", "n", " ", "#", "0", "0", ":", "0", "0", ":", "1", "7", "-", "5", "#", "}", "\\", "p", "a", "r", "}">>
    /\ Len(ln_tokens) = 63
    /\ \E i \in 1..Len(ln_tokens) :
            /\ ln_tokens[i].kind = "Text"
            /\ ln_tokens[i].end - ln_tokens[i].start = 38
            /\ find(as_str(ln_line, ln_tokens[i]), <<"\\", "'">>) # None

\* the kinds and the texts of the tokens yielded so far
TokenTexts ==
    [i \in 1..Len(ln_tokens) |->
        <<ln_tokens[i].kind, as_str(ln_line, ln_tokens[i])>>]

\* the 21 tokens of the empty paragraph
EmptyParagraphTokens ==
    << <<"GroupStart", <<"{">>>>,
       <<"ControlWord", <<"\\", "f">>>>,
       <<"Parameter", <<"0">>>>,
       <<"Delimiter", <<" ">>>>,
       <<"ControlWord", <<"\\", "f", "s">>>>,
       <<"Parameter", <<"2", "4">>>>,
       <<"Delimiter", <<" ">>>>,
       <<"ControlWord", <<"\\", "u", "l">>>>,
       <<"Parameter", <<"0">>>>,
       <<"Delimiter", <<" ">>>>,
       <<"ControlWord", <<"\\", "b">>>>,
       <<"Parameter", <<"0">>>>,
       <<"Delimiter", <<" ">>>>,
       <<"ControlWord", <<"\\", "i">>>>,
       <<"Parameter", <<"0">>>>,
       <<"Delimiter", <<" ">>>>,
       <<"ControlWord", <<"\\", "c", "f">>>>,
       <<"Parameter", <<"0">>>>,
       <<"Delimiter", <<" ">>>>,
       <<"ControlWord", <<"\\", "p", "a", "r">>>>,
       <<"GroupEnd", <<"}">>>> >>

\* C19: in every token sequence of the tokenizer a Parameter occurs only
\* immediately after a ControlWord, and a Delimiter only immediately after
\* a ControlWord, a Parameter or a ControlSym; the line
\* {\f0 \fs24 \ul0 \b0 \i0 \cf0 \par} yields exactly 21 tokens: group-open,
\* six (control word, parameter, delimiter) triples for \f \fs \ul \b \i
\* \cf, the control word \par and group-close.
C19_ParametersAndDelimiters ==
    /\ \A i \in 1..Len(ln_tokens) :
            /\ ln_tokens[i].kind = "Parameter" =>
                    (i > 1 /\ ln_tokens[i - 1].kind = "ControlWord")
            /\ ln_tokens[i].kind = "Delimiter" =>
                    (i > 1 /\ ln_tokens[i - 1].kind
                                \in {"ControlWord", "Parameter", "ControlSym"})
    /\ (ln_pc # "iter" /\ ln_line = <<"{", "\\", "f", "0", " ", "\\", "f", "s", "2", "4", " ", "\\", "u", "l", "0", " ", "\\", "b", "0", " ", "\\", "i", "0", " ", "\\", "c", "f", "0", " ", "\\", "p", "a", "r", "}">>)
            => TokenTexts = EmptyParagraphTokens

\* the empty paragraph is tokenized to its end: 21 tokens
C19_Witness ==
    /\ ln_pc = "end"
    /\ ln_line = <<"{", "\\", "f", "0", " ", "\\", "f", "s", "2", "4", " ", "\\", "u", "l", "0", " ", "\\", "b", "0", " ", "\\", "i", "0", " ", "\\", "c", "f", "0", " ", "\\", "p", "a", "r", "}">>
    /\ Len(ln_tokens) = 21
    /\ ln_tokens[3].kind = "Parameter" /\ ln_tokens[4].kind = "Delimiter"

----------------------------------------------------------------------------
(* Properties of the line classifier *)

\* a (control word, parameter, delimiter) triple with the control word name
\* begins at offset at of line and ends before offset e: the name, a hyphen
\* or digit, digits up to offset e - 1 and there a byte that is neither a
\* digit nor a backslash nor a brace
TripleAt(line, at, name, e) ==
    /\ at + Len(name) + 2 <= e /\ e <= Len(line)
    /\ Slice(line, at, at + Len(name)) = name
    /\ \/ ByteAt(line, at + Len(name)) = "-"
       \/ is_ascii_digit(ByteAt(line, at + Len(name)))
    /\ \A i \in (at + Len(name) + 1)..(e - 2) : is_ascii_digit(ByteAt(line, i))
    /\ ~is_ascii_digit(ByteAt(line, e - 1))
    /\ ByteAt(line, e - 1) \notin {"\\", "{", "}"}

\* line starts with group-open and the six triples \f \fs \ul \b \i \cf
StartsWithWrapper(line) ==
    /\ Len(line) > 0 /\ line[1] = "{"
    /\ \E e1 \in 1..Len(line) : /\ TripleAt(line, 1, PreambleWords[1], e1)
        /\ \E e2 \in e1..Len(line) : /\ TripleAt(line, e1, PreambleWords[2], e2)
        /\ \E e3 \in e2..Len(line) : /\ TripleAt(line, e2, PreambleWords[3], e3)
        /\ \E e4 \in e3..Len(line) : /\ TripleAt(line, e3, PreambleWords[4], e4)
        /\ \E e5 \in e4..Len(line) : /\ TripleAt(line, e4, PreambleWords[5], e5)
        /\ \E e6 \in e5..Len(line) : TripleAt(line, e5, PreambleWords[6], e6)

\* C20: the line classifier accepts the wrapper exactly when the line starts
\* with group-open and six (control word, parameter, delimiter) triples
\* named \f, \fs, \ul, \b, \i, \cf in this order, with any parameter values,
\* and the line ends with the closing marker \par}; such a line is
\* classified as Utterance or Paragraph, never as Other, and every other
\* line as Other.
C20_WrapperAccepted ==
    ln_class # None =>
        IF StartsWithWrapper(ln_line) /\ ends_with(ln_line, LINE_EPILOGUE)
        THEN ln_class[1].kind \in {"Utterance", "Paragraph"}
        ELSE ln_class[1].kind = "Other"

\* C21: a line that does not match the structural wrapper or does not end
\* with the closing marker is classified as Other, and under every shift its
\* emission is exactly the original line bytes followed by the line
\* terminator: no byte of it, a timestamp included, is changed.
C21_OtherVerbatim ==
    /\ (/\ ln_class # None
        /\ ~(StartsWithWrapper(ln_line) /\ ends_with(ln_line, LINE_EPILOGUE)))
            => ln_class[1].kind = "Other"
    /\ (ln_pc = "written" /\ ln_class[1].kind = "Other") =>
            /\ ~ln_out[1].panic
            /\ ln_out[1].out = ln_line \o CRLF

----------------------------------------------------------------------------
(* Properties of the utterance extraction *)

\* the inner content of a wrapped line: the bytes between the wrapper and
\* the closing marker
InnerContent(line) ==
    Slice(line, CHOOSE e \in 0..Len(line) :
                    /\ Rtf_take(line, 0, "None", 19) # <<>>
                    /\ e = Rtf_take(line, 0, "None", 19)[
                                Len(Rtf_take(line, 0, "None", 19))].end,
          Len(line) - Len(LINE_EPILOGUE))

\* the text-runs of an inner content
TextRuns(par) == SelectSeq(Rtf(par), LAMBDA t : t.kind = "Text")

\* no speaker and speech: the line is a Paragraph
NoTurn == [utterance |-> FALSE, speaker |-> <<>>, speech |-> <<>>]

\* a speaker turn: the speaker is the span given, the speech begins at the
\* offset given and extends to the end of the last text-run, both trimmed
Turn(par, runs, speaker, speech_start) ==
    [utterance |-> TRUE, speaker |-> trim(speaker),
     speech |-> trim(Slice(par, speech_start, runs[Len(runs)].end))]

\* the four rules for the text-runs t1, t2, t3, ... of an inner content
ExpectedTurn(par, runs) ==
    IF runs = <<>> THEN NoTurn
    ELSE LET t1 == as_str(par, runs[1])
             t2 == as_str(par, runs[2])
         IN  IF Len(t1) > 1 /\ t1[Len(t1)] = ":"
             THEN IF Len(runs) < 2 THEN NoTurn
                  ELSE Turn(par, runs, SubSeq(t1, 1, Len(t1) - 1),
                            runs[2].start)
             ELSE IF find(t1, <<":", " ">>) # None
             THEN Turn(par, runs, Slice(t1, 0, find(t1, <<":", " ">>)[1]),
                       runs[1].start + find(t1, <<":", " ">>)[1] + 2)
             ELSE IF (\A k \in 1..Len(t1) : t1[k] # ":") /\ Len(runs) >= 2
             THEN IF t2 = <<":">> \/ t2 = <<":", " ">>
                  THEN IF Len(runs) < 3 THEN NoTurn
                       ELSE Turn(par, runs, t1, runs[3].start)
                  ELSE IF Len(t2) > 2 /\ SubSeq(t2, 1, 2) = <<":", " ">>
                  THEN Turn(par, runs, t1, runs[2].start + 2)
                  ELSE NoTurn
             ELSE NoTurn

\* C22: for the inner content of a wrapped line with text-runs t1, t2, t3:
\* (1) if t1 ends with ':' and is longer than one byte, the speaker is t1
\* without the ':' and the speech starts at t2; (2) else if t1 contains ': ',
\* the speaker is the part before the first ': ' and the speech starts right
\* after it; (3) else if t1 has no colon and t2 is exactly ':' or ': ', the
\* speech starts at t3, or if t2 starts with ': ' and has further content
\* the speech is the rest of t2; in each case the speech extends to the end
\* of the last text-run, the line is an Utterance and speaker() and speech()
\* are these spans trimmed; (4) in every other case, a missing text-run
\* included, the line is a Paragraph.
C22_SpeakerAndSpeech ==
    (ln_class # None /\ ln_class[1].kind \in {"Utterance", "Paragraph"}) =>
        \E par \in {InnerContent(ln_line)} :
            \E expected \in {ExpectedTurn(par, TextRuns(par))} :
                IF expected.utterance
                THEN /\ ln_class[1].kind = "Utterance"
                     /\ speaker_of(ln_class[1]) = expected.speaker
                     /\ speech_of(ln_class[1]) = expected.speech
                ELSE ln_class[1].kind = "Paragraph"

----------------------------------------------------------------------------
(* Properties of the text-runs *)

\* the line of test::zurueck_zu_den_methoden
ZurueckLine ==
    <<"{", "\\", "f", "0", " ", "\\", "f", "s", "2", "4", " ", "\\", "u", "l", "0", " ", "\\", "b", "0", " ", "\\", "i", "0", " ", "\\", "c", "f", "0", " ", "{", "\\", "f", "0", " ", "\\", "f", "s", "2", "4", " ", "\\", "u", "l", "0", " ", "\\", "b", "0", " ", "\\", "i", "0", " ", "\\", "c", "f", "0", " ", "Z", "}", "{", "\\", "f", "0", " ", "\\", "f", "s", "2", "4", " ", "\\", "u", "l", "0", " ", "\\", "b", "0", " ", "\\", "i", "0", " ", "\\", "c", "f", "0", " ", ":", " ", "Z", "u", "r", "\\", "'", "f", "c", "c", "k", " ", "z", "u", " ", "d", "e", "n", " ", "M", "e", "t", "h", "o", "d", "e", "n", " ", "#", "0", "0", ":", "0", "0", ":", "1", "7", "-", "5", "#", "}", "\\", "p", "a", "r", "}">>

\* the bytes at which a text-run ends
RunStops == {"\\", "{", "}"}

\* the byte of text at the 1-based position k is a backslash immediately
\* followed by an apostrophe
EscapeAt(text, k) ==
    text[k] = "\\" /\ k < Len(text) /\ text[k + 1] = "'"

\* C27: a text-run token ends at the next '\', '{' or '}' byte, except that
\* a backslash immediately followed by an apostrophe stays inside the run;
\* hence no text-run contains a '{' or '}' byte, and the text-runs of the
\* line of test::zurueck_zu_den_methoden are exactly 'Z' and
\* ': Zur\'fcck zu den Methoden #00:00:17-5#'.
C27_TextRunEnds ==
    /\ \A i \in 1..Len(ln_tokens) :
            ln_tokens[i].kind = "Text" =>
                /\ \A k \in (ln_tokens[i].start + 2)..ln_tokens[i].end :
                        ln_line[k] \in RunStops => EscapeAt(ln_line, k)
                /\ \/ ln_tokens[i].end = Len(ln_line)
                   \/ ln_line[ln_tokens[i].end + 1] \in RunStops
                /\ \A k \in (ln_tokens[i].start + 1)..ln_tokens[i].end :
                        ln_line[k] \notin {"{", "}"}
    /\ (ln_pc = "end" /\ ln_line = ZurueckLine) =>
            SelectSeq(TokenTexts, LAMBDA t : t[1] = "Text")
                = << <<"Text", <<"Z">>>>,
                     <<"Text", <<":", " ", "Z", "u", "r", "\\", "'", "f", "c", "c", "k", " ", "z", "u", " ", "d", "e", "n", " ", "M", "e", "t", "h", "o", "d", "e", "n", " ", "#", "0", "0", ":", "0", "0", ":", "1", "7", "-", "5", "#">>>> >>

----------------------------------------------------------------------------
(* Properties of write_adjusted on classified lines *)

\* every timestamp embedded in text is in canonical form already
TimestampsCanonical(text) ==
    \A at \in 0..(Len(text) - 1) : \A w \in Widths :
        MatchesAt(text, at, w[1], w[2], w[3]) =>
            FormatTenths(MatchedTenths(text, at, w))
                = Slice(text, at, at + w[1] + w[2] + w[3] + 6)

\* C28: for every line classified as Utterance or Paragraph, write_adjusted
\* with a zero shift, all timestamps of the line being in canonical form
\* already, emits the original line byte for byte (wrapper with its original
\* parameter values, separators, speaker, speech and closing marker)
\* followed by the line terminator.
C28_ZeroShiftReproducesLine ==
    (/\ ln_pc = "written"
     /\ ln_class[1].kind \in {"Utterance", "Paragraph"}
     /\ ln_by = zero
     /\ TimestampsCanonical(ln_line)) =>
        /\ ~ln_out[1].panic
        /\ ln_out[1].out = ln_line \o CRLF

----------------------------------------------------------------------------
(* Properties of the spans of an Utterance *)

\* C29: for every inner line content that Utterance::try_from accepts, the
\* five spans speaker_before, speaker, speaker_after, speech and speech_after
\* do not overlap, appear in this order, and their concatenation is the inner
\* content: 0 <= speaker_start <= speaker_end <= speech_start <= speech_end
\* <= length, so that no slice has its start beyond its end.
C29_SpansInOrder ==
    (ln_class # None /\ ln_class[1].kind = "Utterance") =>
        \E par \in {InnerContent(ln_line)} :
            \E o \in {utterance_offsets(par, TextRuns(par))} :
                /\ o # None
                /\ 0 <= TextRuns(par)[1].start
                /\ TextRuns(par)[1].start <= o[1][1]
                /\ o[1][1] <= o[1][2]
                /\ o[1][2] <= Len(par) - Len(ln_class[1].speech_after)
                /\ Len(ln_class[1].speech_after) >= 0
                /\ Len(ln_class[1].speaker_before) = TextRuns(par)[1].start
                /\ Len(ln_class[1].speaker) = o[1][1] - TextRuns(par)[1].start
                /\ Len(ln_class[1].speaker_after) = o[1][2] - o[1][1]
                /\ ln_class[1].speaker_before \o ln_class[1].speaker
                        \o ln_class[1].speaker_after \o ln_class[1].speech
                        \o ln_class[1].speech_after = par

\* an Utterance all of whose five spans are non-empty
C29_Witness ==
    /\ ln_pc = "classified"
    /\ ln_line = <<"{", "\\", "f", "0", " ", "\\", "f", "s", "2", "4", " ", "\\", "u", "l", "0", " ", "\\", "b", "0", " ", "\\", "i", "0", " ", "\\", "c", "f", "0", " ", "{", "\\", "f", "1", " ", "\\", "f", "s", "2", "4", " ", "\\", "u", "l", "0", " ", "\\", "b", "0", " ", "\\", "i", "0", " ", "\\", "c", "f", "0", " ", "Z", ":", "}", "{", "\\", "f", "0", " ", "\\", "f", "s", "2", "4", " ", "\\", "u", "l", "0", " ", "\\", "b", "0", " ", "\\", "i", "0", " ", "\\", "c", "f", "0", " ", "Z", "u", "r", "\\", "'", "f", "c", "c", "k", " ", "z", "u", " ", "d", "e", "n", " ", "M", "e", "t", "h", "o", "d", "e", "n", " ", "#", "0", "0", ":", "0", "0", ":", "1", "7", "-", "5", "#", "}", "\\", "p", "a", "r", "}">>
    /\ ln_class[1].kind = "Utterance"
    /\ ln_class[1].speaker_before = <<"{", "\\", "f", "1", " ", "\\", "f", "s", "2", "4", " ", "\\", "u", "l", "0", " ", "\\", "b", "0", " ", "\\", "i", "0", " ", "\\", "c", "f", "0", " ">>
    /\ ln_class[1].speaker = <<"Z">>
    /\ ln_class[1].speaker_after = <<":", "}", "{", "\\", "f", "0", " ", "\\", "f", "s", "2", "4", " ", "\\", "u", "l", "0", " ", "\\", "b", "0", " ", "\\", "i", "0", " ", "\\", "c", "f", "0", " ">>
    /\ ln_class[1].speech = <<"Z", "u", "r", "\\", "'", "f", "c", "c", "k", " ", "z", "u", " ", "d", "e", "n", " ", "M", "e", "t", "h", "o", "d", "e", "n", " ", "#", "0", "0", ":", "0", "0", ":", "1", "7", "-", "5", "#">>
    /\ ln_class[1].speech_after = <<"}">>

----------------------------------------------------------------------------
(* Properties of extract_timestamps *)

\* C26: for every buffer, the matches returned by extract_timestamps are in
\* strictly increasing offset order and do not overlap: each match starts at
\* or after offset + len of the preceding match, so that the gap
\* write_with_adjusted_timestamps copies between two consecutive matches
\* never has a negative length.
C26_MatchesDoNotOverlap ==
    rw_pc = "ret" =>
        \E timestamps \in {extract_timestamps(rw_text)} :
            \A k \in 1..(Len(timestamps) - 1) :
                /\ timestamps[k][1] < timestamps[k + 1][1]
                /\ timestamps[k][2] # PANIC =>
                        timestamps[k][1] + len(timestamps[k][2])
                            <= timestamps[k + 1][1]

----------------------------------------------------------------------------
(* Properties of the lines of the merged output *)

RECURSIVE EmittedLines(_)
\* the lines that a sequence of writes emits, each with the position of its
\* document, in the order written; a spliced line emits two halves
EmittedLines(writes) ==
    IF writes = <<>> THEN <<>>
    ELSE (IF Head(writes).call = "spliced"
          THEN << <<Head(writes).step - 1, Head(writes).line>>,
                  <<Head(writes).step, Head(writes).extra>> >>
          ELSE IF Head(writes).call \in LineCalls
          THEN << <<DocOf(Head(writes)), Head(writes).line>> >>
          ELSE <<>>)
         \o EmittedLines(Tail(writes))

RECURSIVE LinesFrom(_)
\* the lines of the documents from position i on, each with the position of
\* its document, in document order and then line order
LinesFrom(i) ==
    IF i > Len(input) THEN <<>>
    ELSE [k \in 1..Len(Doc(i)) |-> <<i, Doc(i)[k]>>] \o LinesFrom(i + 1)

\* C25: for any sequence of documents, every Line of every document is
\* written to the output exactly once, as its own output line or as one half
\* of a spliced line, in document order and then line order; a document
\* with exactly one line has that line emitted exactly once.
C25_EveryLineOnce ==
    pc = "done" => EmittedLines(to) = LinesFrom(1)

----------------------------------------------------------------------------
(* Properties of the merge of a single document *)

\* all lines of the file carry the canonical wrapper and the closing marker,
\* have no white space around their speech and only canonically formatted
\* timestamps
CanonicalFile(f) ==
    \E raw \in {str_lines(Loaded[f].content)} :
        \A k \in 1..Len(raw) :
            /\ starts_with(raw[k], LINE_PREAMBLE)
            /\ ends_with(raw[k], LINE_EPILOGUE)
            /\ LinesOf[f][k].kind \in {"Utterance", "Paragraph"}
            /\ LinesOf[f][k].kind = "Utterance" =>
                    speech_of(LinesOf[f][k]) = LinesOf[f][k].speech
            /\ LinesOf[f][k].kind = "Paragraph" =>
                    trim(LinesOf[f][k].content) = LinesOf[f][k].content
            /\ TimestampsCanonical(raw[k])

\* C30: merging a sequence that consists of a single loaded document whose
\* lines all carry the canonical wrapper, have no surrounding white space in
\* their speech and contain only canonically formatted timestamps writes an
\* output that is byte for byte the text of the document's file (preamble,
\* body and epilogue).
C30_SingleDocumentIsIdentity ==
    (pc = "done" /\ Len(input) = 1 /\ CanonicalFile(input[1])) =>
        bytes_of(to) = Files[input[1]]

----------------------------------------------------------------------------
(* Properties of loading and of the merge orchestration *)

\* the outcome of loading a file text by the four rules: the first error
\* whose condition holds, otherwise the Document
ExpectedLoad(buf) ==
    IF find(buf, PREAMBLE_END_PATTERN) = None THEN "MalformedPreamble"
    ELSE IF ~ends_with(buf, EPILOGUE) THEN "MalformedEpilogue"
    ELSE IF MatchOffsets(buf) = {} THEN "NoTimestampsFound"
    ELSE "Ok"

\* C23: for every file text, loading has exactly one of these outcomes: the
\* malformed preamble error if the content-start marker does not occur; the
\* malformed epilogue error if the text does not end with the closing
\* literal; the no timestamps found error if no timestamp occurs anywhere in
\* the file; otherwise a Document whose preamble is everything up to and
\* including the marker and whose body is the text strictly between the
\* marker and the closing literal. Loading never aborts in any other way.
C23_LoadOutcomes ==
    ld_last # None =>
        \E buf \in {DiskFiles[ld_paths[ld_next - 1]]} :
            /\ ld_last[1].result # "Panic"
            /\ ld_last[1].result = ExpectedLoad(buf)
            /\ ld_last[1].result = "Ok" =>
                    \E marker \in {find(buf, PREAMBLE_END_PATTERN)[1]} :
                        /\ ld_last[1].preamble
                              = SubSeq(buf, 1,
                                       marker + Len(PREAMBLE_END_PATTERN))
                        /\ ld_last[1].content
                              = SubSeq(buf,
                                       marker + Len(PREAMBLE_END_PATTERN) + 1,
                                       Len(buf) - Len(EPILOGUE))
                        /\ ld_last[1].preamble \o ld_last[1].content
                              \o EPILOGUE = buf

\* the paths whose file from_file loads, in their original order
Loadable(paths) ==
    SelectSeq(paths, LAMBDA f : from_file[f].result = "Ok")

\* C24: a document that fails to load is skipped and the remaining loadable
\* documents are merged in their original order; if no document is loadable
\* the operation fails with the no transcripts error, and in that case no
\* output file is created or written.
C24_SkipAndNoTranscripts ==
    /\ ld_pc # "panic"
    /\ ld_pc = "Ok" =>
            /\ ld_merged = Loadable(ld_paths)
            /\ ld_merged # <<>>
    /\ ld_pc = "NoTranscripts" =>
            /\ Loadable(ld_paths) = <<>>
            /\ ld_file = "absent"
    /\ Loadable(ld_paths) = <<>> =>
            /\ ld_pc \in {"peek", "NoTranscripts"}
            /\ ld_file = "absent"
            /\ ld_merged = <<>>

============================================================================
